---- MODULE Spec2Model ----
(***************************************************************************)
(* Cafeteria ordering backend: the order engine (src/routes/orders.ts),    *)
(* the access control layer (middleware/auth.ts) and POS payment recording *)
(* (controllers/payments.ts), over the relational store of the Prisma      *)
(* migrations.  Requests are handled concurrently: a handler is suspended  *)
(* at a storage call it awaits, so a handler that reads and later writes   *)
(* is modelled as several steps with its locals kept in `inflight`.        *)
(***************************************************************************)
EXTENDS Integers, Sequences, FiniteSets, TLC

(***************************************************************************)
(* Bounds of the model.                                                    *)
(***************************************************************************)
MaxOrders == 2          \* orders ever created
MaxInFlight == 2        \* handlers suspended at an await at the same time
MaxQty == 2             \* largest quantity of a request line
MaxLines == 2           \* most lines of a request
MaxNotifications == 2   \* rows of the Notification table
MaxPayments == 1        \* rows of the Payment table
MaxMenuWrites == 1      \* staff writes to the menu

(***************************************************************************)
(* JavaScript numbers.  Number(x) and the operators * + - work on IEEE 754 *)
(* binary64 values, round-to-nearest-even.  A value is sign * m * 2^e with *)
(* m a natural number of exactly Precision bits, kept as a sequence of     *)
(* limbs of LimbBits bits, most significant first (TLC's integers are 32   *)
(* bits wide).  Zero is the empty mantissa.                                *)
(***************************************************************************)
Precision == 53
LimbBits == 15
Base == 2 ^ LimbBits
ScaleLimbs == 5

Front(s) == SubSeq(s, 1, Len(s) - 1)
ZeroLimbs(n) == [i \in 1..n |-> 0]

RECURSIVE BigNorm(_)
BigNorm(x) == IF x = <<>> \/ x[1] # 0 THEN x ELSE BigNorm(Tail(x))

RECURSIVE BigFromNat(_)
BigFromNat(n) == IF n = 0 THEN <<>> ELSE Append(BigFromNat(n \div Base), n % Base)

RECURSIVE BigToNat(_)
BigToNat(x) == IF x = <<>> THEN 0 ELSE BigToNat(Front(x)) * Base + x[Len(x)]

RECURSIVE BigMulSmall(_, _, _)
BigMulSmall(x, q, carry) ==
  IF x = <<>> THEN BigFromNat(carry)
  ELSE LET t == x[Len(x)] * q + carry
       IN Append(BigMulSmall(Front(x), q, t \div Base), t % Base)

RECURSIVE BigAdd(_, _, _)
BigAdd(x, y, carry) ==
  IF x = <<>> /\ y = <<>> THEN BigFromNat(carry)
  ELSE LET xl == IF x = <<>> THEN 0 ELSE x[Len(x)]
           yl == IF y = <<>> THEN 0 ELSE y[Len(y)]
           t  == xl + yl + carry
       IN Append(BigAdd(IF x = <<>> THEN x ELSE Front(x),
                        IF y = <<>> THEN y ELSE Front(y), t \div Base), t % Base)

\* x - y for x >= y
RECURSIVE BigSub(_, _, _)
BigSub(x, y, borrow) ==
  IF x = <<>> THEN <<>>
  ELSE LET yl == IF y = <<>> THEN 0 ELSE y[Len(y)]
           t  == x[Len(x)] - yl - borrow
       IN Append(BigSub(Front(x), IF y = <<>> THEN y ELSE Front(y), IF t < 0 THEN 1 ELSE 0),
                 IF t < 0 THEN t + Base ELSE t)

\* x < y, both without leading zero limbs
RECURSIVE BigLess(_, _)
BigLess(x, y) ==
  IF Len(x) # Len(y) THEN Len(x) < Len(y)
  ELSE IF x = <<>> THEN FALSE
  ELSE IF x[1] # y[1] THEN x[1] < y[1]
  ELSE BigLess(Tail(x), Tail(y))

RECURSIVE BigDivSmall(_, _, _, _, _)
BigDivSmall(x, divisor, i, rem, acc) ==
  IF i > Len(x) THEN [q |-> BigNorm(acc), r |-> rem]
  ELSE LET t == rem * Base + x[i]
       IN BigDivSmall(x, divisor, i + 1, t % divisor, Append(acc, t \div divisor))

BitLen(x) ==
  IF x = <<>> THEN 0
  ELSE (Len(x) - 1) * LimbBits
       + (CHOOSE k \in 1..LimbBits : 2 ^ (k - 1) <= x[1] /\ x[1] < 2 ^ k)

ShiftLeft(x, s) ==
  IF x = <<>> THEN x
  ELSE BigNorm(BigMulSmall(x, 2 ^ (s % LimbBits), 0)) \o ZeroLimbs(s \div LimbBits)

ShiftRight(x, s) ==
  LET drop == s \div LimbBits
      kept == IF drop >= Len(x) THEN <<>> ELSE SubSeq(x, 1, Len(x) - drop)
      lost == \E i \in 1..Len(x) : i > Len(x) - drop /\ x[i] # 0
      dv   == BigDivSmall(kept, 2 ^ (s % LimbBits), 1, 0, <<>>)
  IN [q |-> dv.q, sticky |-> lost \/ dv.r # 0]

Zero == [s |-> 1, m |-> <<>>, e |-> 0]

\* sign * x * 2^e (plus a nonzero remainder below x's last bit when `sticky`),
\* rounded to the nearest binary64 value, ties to even
RoundD(sign, x, e, sticky) ==
  LET len == BitLen(x)
  IN IF len = 0 THEN Zero
     ELSE IF len <= Precision
       THEN [s |-> sign, m |-> ShiftLeft(x, Precision - len), e |-> e - (Precision - len)]
       ELSE LET sr   == ShiftRight(x, len - Precision - 1)
                keep == ShiftRight(sr.q, 1).q
                up   == sr.q[Len(sr.q)] % 2 = 1
                        /\ (sticky \/ sr.sticky \/ keep[Len(keep)] % 2 = 1)
                r    == IF up THEN BigAdd(keep, <<1>>, 0) ELSE keep
                e1   == e + (len - Precision)
            IN IF BitLen(r) > Precision
                 THEN [s |-> sign, m |-> ShiftRight(r, 1).q, e |-> e1 + 1]
                 ELSE [s |-> sign, m |-> r, e |-> e1]

Abs(n) == IF n < 0 THEN 0 - n ELSE n
Sgn(n) == IF n < 0 THEN 0 - 1 ELSE 1

\* Number(d) of a decimal d = c / 100: the binary64 value nearest to it
NumberOfCents(c) ==
  LET dv == BigDivSmall(BigFromNat(Abs(c)) \o ZeroLimbs(ScaleLimbs), 100, 1, 0, <<>>)
  IN RoundD(Sgn(c), dv.q, 0 - ScaleLimbs * LimbBits, dv.r # 0)

\* a * q for a binary64 a and a small natural number q (exact as a binary64)
FMul(a, q) ==
  IF a = Zero \/ q = 0 THEN Zero
  ELSE RoundD(a.s, BigNorm(BigMulSmall(a.m, q, 0)), a.e, FALSE)

FNeg(a) == IF a = Zero THEN Zero ELSE [a EXCEPT !.s = 0 - a.s]

\* a + b
FAdd(a, b) ==
  IF a = Zero THEN b
  ELSE IF b = Zero THEN a
  ELSE LET e  == IF a.e < b.e THEN a.e ELSE b.e
           am == ShiftLeft(a.m, a.e - e)
           bm == ShiftLeft(b.m, b.e - e)
       IN IF a.s = b.s THEN RoundD(a.s, BigNorm(BigAdd(am, bm, 0)), e, FALSE)
          ELSE IF am = bm THEN Zero
          ELSE IF BigLess(am, bm) THEN RoundD(b.s, BigNorm(BigSub(bm, am, 0)), e, FALSE)
          ELSE RoundD(a.s, BigNorm(BigSub(am, bm, 0)), e, FALSE)

\* a - b
FSub(a, b) == FAdd(a, FNeg(b))

\* the whole number of cents nearest to a (|a| < 2^52)
NearestCents(a) ==
  IF a = Zero THEN 0
  ELSE LET q2 == BigToNat(ShiftRight(BigMulSmall(a.m, 100, 0), (0 - a.e) - 1).q)
       IN a.s * ((q2 \div 2) + (q2 % 2))

(***************************************************************************)
(* Decimal columns are DECIMAL(65,30): they keep every digit written to    *)
(* them.  The prices of the menu are whole numbers of cents and are kept   *)
(* as such.  A Decimal built from a JavaScript number holds                *)
(* the digits of the number's shortest decimal form (Number.toString): it  *)
(* is a whole number of cents c exactly when the number is the binary64    *)
(* value nearest to c / 100; otherwise it has more fractional digits and   *)
(* is identified by the number it prints.                                  *)
(***************************************************************************)
CentsDecimal(c) == [exact |-> TRUE, c |-> c, d |-> Zero]

DecimalOfNumber(a) ==
  LET c == NearestCents(a)
  IN IF NumberOfCents(c) = a THEN CentsDecimal(c)
     ELSE [exact |-> FALSE, c |-> 0, d |-> a]

NumberOfDecimal(dec) == IF dec.exact THEN NumberOfCents(dec.c) ELSE dec.d

(***************************************************************************)
(* The store: the tables of the schema, and the enums of its migrations.   *)
(***************************************************************************)
Students == {"s1", "s2"}
Staff == {"st1"}
Admins == {"ad1"}
Users == Students \cup Staff \cup Admins
RoleOf(u) == IF u \in Students THEN "student" ELSE IF u \in Staff THEN "staff" ELSE "admin"

OrderStatus == {"pending", "confirmed", "preparing", "ready", "rejected", "picked_up"}
PickupType == {"dine_in", "take_out"}
PaymentStatus == {"pending", "cash_on_pickup", "paid"}

Null == "null"
NullStock == <<>>                     \* MenuItem.stockLimit IS NULL
Stock(n) == <<n>>                     \* a finite stock limit
NoOrder == 0                          \* Payment.orderId IS NULL / no order in a response

ItemIds == {"A", "B"}                 \* ids of menu items that exist or have existed
UnknownId == "X"                      \* an id no menu item ever had
Prices == {110, 220}                  \* unit prices in cents: 1.10 and 2.20

VARIABLES
  menu,            \* MenuItem: id -> [price, availability, stockLimit]
  orders,          \* Order: id -> [userId, status, pickupType, totalPrice, paymentStatus, paymentConfirmed]
  orderItems,      \* OrderItem rows [orderId, itemId, quantity, priceAtOrder], in insertion order
  inventoryLogs,   \* InventoryLog rows [staffId, itemId, changeType, quantity, note]
  notifications,   \* Notification rows [userId, orderId, message, status]
  payments,        \* Payment rows [orderId, processedById, amountReceived, amountDue, change, paymentMethod]
  nextOrderId,     \* the next fresh Order id
  menuWrites,      \* staff writes to the menu so far
  inflight,        \* slot -> the locals of a handler suspended at an await
  resp             \* the last response sent

VARIABLES
  users,           \* User: id -> [email, role, approved, password, resetPasswordToken, resetPasswordExpires]
  signed,          \* the payloads {userId, role} of the tokens signed so far
  nextResetToken,  \* the next fresh password-reset token
  clock            \* the time, in minutes

VARIABLES
  categories       \* MenuCategory: id -> [name]

store == <<menu, categories, orders, orderItems, inventoryLogs, notifications, payments, nextOrderId>>
authVars == <<users, signed, nextResetToken, clock>>
vars == <<menu, orders, orderItems, inventoryLogs, notifications, payments, nextOrderId,
          menuWrites, inflight, resp, users, signed, nextResetToken, clock, categories>>

\* User rows.  The password stands for its bcrypt hash: bcrypt.compare(p, hash(q))
\* holds exactly when p = q.  A NULL reset token is 0 and a NULL expiry is time 0.
NoResetToken == 0
NoExpiry == 0
Emails == {"admin@ustp.edu.ph", "staff@ustp.edu.ph"}
Passwords == {"admin123", "secret"}
SeededAdmin ==
  [email |-> "admin@ustp.edu.ph", role |-> "admin", approved |-> TRUE, password |-> "admin123",
   fullName |-> "System Admin",
   resetPasswordToken |-> NoResetToken, resetPasswordExpires |-> NoExpiry]

Slots == 1..MaxInFlight
Idle == [op |-> "idle"]

\* the tables other than User, empty but for the menu
InitStore ==
  /\ menu = [i \in ItemIds |->
               IF i = "A" THEN [price |-> 110, availability |-> TRUE, stockLimit |-> Stock(2)]
                          ELSE [price |-> 220, availability |-> TRUE, stockLimit |-> NullStock]]
  /\ orders = <<>>
  /\ orderItems = <<>>
  /\ inventoryLogs = <<>>
  /\ notifications = <<>>
  /\ payments = <<>>
  /\ nextOrderId = 1
  /\ menuWrites = 0
  /\ inflight = [s \in Slots |-> Idle]
  /\ resp = [op |-> "none", role |-> "none", code |-> 0, error |-> "", order |-> NoOrder]
  /\ signed = {}
  /\ nextResetToken = 1
  /\ clock = 0
  /\ categories = <<>>

\* the state after prisma/seed.ts: the one user is the seeded admin
Init == InitStore /\ users = (1 :> SeededAdmin)

(***************************************************************************)
(* Access control layer.  A request carries no token, a token that fails   *)
(* verification, or a token whose verified payload is {userId, role}.      *)
(***************************************************************************)
NoToken == [kind |-> "none", userId |-> Null, role |-> "none"]
BadToken == [kind |-> "bad", userId |-> Null, role |-> "none"]
TokenOf(u) == [kind |-> "jwt", userId |-> u, role |-> RoleOf(u)]
Credentials == {NoToken, BadToken} \cup {TokenOf(u) : u \in Users}

\* authenticateToken: the response that ends the request, or req.user
authenticateToken(cred) ==
  IF cred.kind = "none"
    THEN [next |-> FALSE, code |-> 401, error |-> "Access denied. No token provided.", user |-> Null, role |-> "none"]
  ELSE IF cred.kind = "bad"
    THEN [next |-> FALSE, code |-> 403, error |-> "Invalid token", user |-> Null, role |-> "none"]
  ELSE [next |-> TRUE, code |-> 0, error |-> "", user |-> cred.userId, role |-> cred.role]

\* the middleware returned by requireRole(roles), run on a request whose req.user
\* is `user` (Null: no req.user) with role `role`: the status it answers, or 0 when
\* it calls next()
RoleGateAllowAll(roles, user, role) == 0

RoleGate(roles, user, role) ==
  IF user = Null THEN 401
  ELSE IF role \notin roles THEN 403
  ELSE 0

RoleGateError(code) == IF code = 401 THEN "Not authenticated" ELSE "Forbidden: insufficient role"

\* requireRole(roles) after authenticateToken, which ends the request itself when it
\* does not call next()
requireRole(roles, auth) ==
  IF ~auth.next THEN auth
  ELSE LET code == RoleGate(roles, auth.user, auth.role)
       IN IF code # 0
            THEN [auth EXCEPT !.next = FALSE, !.code = code, !.error = RoleGateError(code)]
            ELSE auth

\* res.status(code).json(...): the response of handler `op` to the caller
Respond(op, auth, code, error, order) ==
  resp' = [op |-> op, role |-> auth.role, code |-> code, error |-> error, order |-> order]

(***************************************************************************)
(* POST /orders (student): validation, the transaction, the notification.  *)
(***************************************************************************)
Lines == [menuId : ItemIds \cup {UnknownId}, quantity : 1..MaxQty]
\* the item lists of the requests: no line, one line, or up to MaxLines lines of
\* which all but the last order one unit of item A
ItemLists ==
  {<<>>} \cup
  {[k \in 1..n |-> IF k = n THEN l ELSE [menuId |-> "A", quantity |-> 1]] :
     n \in 1..MaxLines, l \in {x \in Lines : x.menuId \in ItemIds}}
  \cup {<<[menuId |-> UnknownId, quantity |-> 1]>>}
PickupInputs == PickupType \cup {"delivery"}

\* prisma.menuItem.findMany({ where: { id: { in: itemIds } } })
findManyMenuItems(items) ==
  [i \in {items[k].menuId : k \in 1..Len(items)} \cap DOMAIN menu |-> menu[i]]

\* the validation loop: the error of the first line that fails, or "" when none does
RECURSIVE ValidateItems(_, _, _)
ValidateItems(items, menuItems, k) ==
  IF k > Len(items) THEN ""
  ELSE LET it == items[k]
       IN IF it.menuId \notin DOMAIN menuItems THEN "not found"
          ELSE IF ~menuItems[it.menuId].availability THEN "is not available"
          ELSE IF menuItems[it.menuId].stockLimit # NullStock
                  /\ menuItems[it.menuId].stockLimit[1] < it.quantity
            THEN "has insufficient stock"
          ELSE ValidateItems(items, menuItems, k + 1)

\* the error that ends the request before the transaction, or "" when it goes on
CreateOrderErrorNoEmptyCheck(items, pickupType, menuItems) ==
  IF pickupType \notin PickupType THEN "Invalid pickup type"
  ELSE ValidateItems(items, menuItems, 1)

CreateOrderError(items, pickupType, menuItems) ==
  IF Len(items) = 0 THEN "No items provided"
  ELSE IF pickupType \notin PickupType THEN "Invalid pickup type"
  ELSE ValidateItems(items, menuItems, 1)

\* items.reduce((sum, it) => sum + Number(mi.price) * it.quantity, 0) over the first
\* n lines, each line given by the price read for it and its quantity
RECURSIVE ReduceTotal(_, _)
ReduceTotal(priced, n) ==
  IF n = 0 THEN Zero
  ELSE FAdd(ReduceTotal(priced, n - 1), FMul(NumberOfCents(priced[n][1]), priced[n][2]))

\* new Prisma.Decimal(totalPrice), for every list of priced lines a request can have
PricedLists == UNION {[1..n -> Prices \X (1..MaxQty)] : n \in 1..MaxLines}
TotalPriceOf == [priced \in PricedLists |-> DecimalOfNumber(ReduceTotal(priced, Len(priced)))]

TotalPrice(items, menuItems) ==
  TotalPriceOf[[k \in 1..Len(items) |-> <<menuItems[items[k].menuId].price, items[k].quantity>>]]

\* data: { stockLimit: { decrement: quantity } }  (NULL - q is NULL)
DecrementByOne(stockLimit, quantity) ==
  IF stockLimit = NullStock THEN NullStock ELSE Stock(stockLimit[1] - 1)

Decrement(stockLimit, quantity) ==
  IF stockLimit = NullStock THEN NullStock ELSE Stock(stockLimit[1] - quantity)

CreatesInFlight == Cardinality({s \in Slots : inflight[s].op = "create"})

\* a handler that suspends takes the first free slot
FreeSlot(s) == inflight[s] = Idle /\ \A t \in Slots : t < s => inflight[t] # Idle

\* tx.order.create with its nested orderItems
NewOrderOfFirstStudent(rq) ==
  [userId |-> "s1", status |-> "pending", pickupType |-> rq.pickupType,
   totalPrice |-> TotalPrice(rq.items, rq.menuItems),
   paymentStatus |-> "pending", paymentConfirmed |-> FALSE]

NewOrder(rq) ==
  [userId |-> rq.userId, status |-> "pending", pickupType |-> rq.pickupType,
   totalPrice |-> TotalPrice(rq.items, rq.menuItems),
   paymentStatus |-> "pending", paymentConfirmed |-> FALSE]

NewOrderItemsCurrentPrice(rq, id) ==
  [k \in 1..Len(rq.items) |->
     [orderId |-> id, itemId |-> rq.items[k].menuId, quantity |-> rq.items[k].quantity,
      priceAtOrder |-> IF rq.items[k].menuId \in DOMAIN menu
                         THEN menu[rq.items[k].menuId].price
                         ELSE rq.menuItems[rq.items[k].menuId].price]]

NewOrderItems(rq, id) ==
  [k \in 1..Len(rq.items) |->
     [orderId |-> id, itemId |-> rq.items[k].menuId, quantity |-> rq.items[k].quantity,
      priceAtOrder |-> rq.menuItems[rq.items[k].menuId].price]]

\* the loop of the transaction callback from line k on: the stock decrement of a
\* line whose item had a finite limit when read, then the line's InventoryLog row.
\* Statement 2k is line k's update and 2k+1 its log insert; the storage fails at
\* statement failAt (0: nowhere), and a row whose menu item is gone cannot be written.
RECURSIVE TxLines(_, _, _, _, _)
TxLinesLogLimitedOnly(db, rq, id, k, failAt) ==
  IF k > Len(rq.items) THEN [ok |-> TRUE, db |-> db]
  ELSE LET it      == rq.items[k]
           limited == rq.menuItems[it.menuId].stockLimit # NullStock
           gone    == it.menuId \notin DOMAIN db.menu
           db1     == IF limited /\ ~gone
                        THEN [db EXCEPT !.menu[it.menuId].stockLimit = Decrement(@, it.quantity)]
                        ELSE db
           db2     == IF ~limited THEN db1
                      ELSE [db1 EXCEPT !.inventoryLogs =
                         Append(@, [staffId |-> Null, itemId |-> it.menuId, changeType |-> "deduct",
                                    quantity |-> it.quantity, note |-> id])]
       IN IF limited /\ (gone \/ failAt = 2 * k) THEN [ok |-> FALSE, db |-> db]
          ELSE IF gone \/ failAt = 2 * k + 1 THEN [ok |-> FALSE, db |-> db1]
          ELSE TxLines(db2, rq, id, k + 1, failAt)

TxLines(db, rq, id, k, failAt) ==
  IF k > Len(rq.items) THEN [ok |-> TRUE, db |-> db]
  ELSE LET it      == rq.items[k]
           limited == rq.menuItems[it.menuId].stockLimit # NullStock
           gone    == it.menuId \notin DOMAIN db.menu
           db1     == IF limited /\ ~gone
                        THEN [db EXCEPT !.menu[it.menuId].stockLimit = Decrement(@, it.quantity)]
                        ELSE db
           db2     == [db1 EXCEPT !.inventoryLogs =
                         Append(@, [staffId |-> Null, itemId |-> it.menuId, changeType |-> "deduct",
                                    quantity |-> it.quantity, note |-> id])]
       IN IF limited /\ (gone \/ failAt = 2 * k) THEN [ok |-> FALSE, db |-> db]
          ELSE IF gone \/ failAt = 2 * k + 1 THEN [ok |-> FALSE, db |-> db1]
          ELSE TxLines(db2, rq, id, k + 1, failAt)

\* the transaction callback: statement 1 is order.create
TxBody(db, rq, failAt) ==
  LET id  == db.nextOrderId
      fk  == \E k \in 1..Len(rq.items) : rq.items[k].menuId \notin DOMAIN db.menu
      db1 == [db EXCEPT !.orders = @ @@ (id :> NewOrder(rq)),
                        !.orderItems = @ \o NewOrderItems(rq, id),
                        !.nextOrderId = @ + 1]
  IN IF fk \/ failAt = 1 THEN [ok |-> FALSE, db |-> db]
     ELSE TxLines(db1, rq, id, 1, failAt)

\* prisma.$transaction(callback): the callback's writes are committed together
\* when it returns and all rolled back when it throws
TransactionNoRollback(db, run) == run.db

Transaction(db, run) == IF run.ok THEN run.db ELSE db

\* the request up to the await of prisma.$transaction
CreateOrderBegin(s, cred, items, pickupType) ==
  LET auth      == requireRole({"student"}, authenticateToken(cred))
      menuItems == findManyMenuItems(items)
      error     == CreateOrderError(items, pickupType, menuItems)
  IN /\ FreeSlot(s)
     /\ nextOrderId + CreatesInFlight <= MaxOrders
     /\ Len(notifications) + CreatesInFlight < MaxNotifications
     /\ IF ~auth.next
          THEN Respond("createOrder", auth, auth.code, auth.error, NoOrder) /\ UNCHANGED inflight
        ELSE IF error # ""
          THEN Respond("createOrder", auth, 400, error, NoOrder) /\ UNCHANGED inflight
        ELSE /\ inflight' = [inflight EXCEPT ![s] =
                  [op |-> "create", pc |-> "tx", auth |-> auth, userId |-> auth.user, items |-> items,
                   pickupType |-> pickupType, menuItems |-> menuItems, order |-> NoOrder]]
             /\ UNCHANGED resp
     /\ UNCHANGED <<store, menuWrites, authVars>>

\* prisma.$transaction
CreateOrderTx(s, failAt) ==
  /\ inflight[s].op = "create" /\ inflight[s].pc = "tx"
  /\ failAt <= 1 + 2 * Len(inflight[s].items)
  /\ LET rq == inflight[s]
         db == [menu |-> menu, orders |-> orders, orderItems |-> orderItems,
                inventoryLogs |-> inventoryLogs, nextOrderId |-> nextOrderId]
     IN \E run \in {TxBody(db, rq, failAt)} : \E after \in {Transaction(db, run)} :
        /\ menu' = after.menu
        /\ orders' = after.orders
        /\ orderItems' = after.orderItems
        /\ inventoryLogs' = after.inventoryLogs
        /\ nextOrderId' = after.nextOrderId
        /\ IF run.ok
             THEN /\ inflight' = [inflight EXCEPT ![s].pc = "notify", ![s].order = nextOrderId]
                  /\ UNCHANGED resp
             ELSE /\ inflight' = [inflight EXCEPT ![s] = Idle]
                  /\ Respond("createOrder", rq.auth, 500, "Failed to create order", NoOrder)
  /\ UNCHANGED <<notifications, payments, menuWrites, categories, authVars>>

\* prisma.notification.create after the transaction, then res.json(order)
CreateOrderNotifySilent(s) ==
  /\ inflight[s].op = "create" /\ inflight[s].pc = "notify"
  /\ Respond("createOrder", inflight[s].auth, 200, "", inflight[s].order)
  /\ inflight' = [inflight EXCEPT ![s] = Idle]
  /\ UNCHANGED <<store, menuWrites, authVars>>

CreateOrderNotify(s) ==
  /\ inflight[s].op = "create" /\ inflight[s].pc = "notify"
  /\ LET rq == inflight[s]
     IN IF rq.order \in DOMAIN orders
          THEN /\ notifications' = Append(notifications,
                     [userId |-> rq.userId, orderId |-> rq.order, message |-> <<"placed">>,
                      status |-> "unread"])
               /\ Respond("createOrder", rq.auth, 200, "", rq.order)
          ELSE /\ UNCHANGED notifications
               /\ Respond("createOrder", rq.auth, 500, "Failed to create order", NoOrder)
  /\ inflight' = [inflight EXCEPT ![s] = Idle]
  /\ UNCHANGED <<menu, orders, orderItems, inventoryLogs, payments, nextOrderId, menuWrites, categories, authVars>>

\* prisma.notification.create throws (the storage fails): the catch answers 500
CreateOrderNotifyFails(s) ==
  /\ inflight[s].op = "create" /\ inflight[s].pc = "notify"
  /\ Respond("createOrder", inflight[s].auth, 500, "Failed to create order", NoOrder)
  /\ inflight' = [inflight EXCEPT ![s] = Idle]
  /\ UNCHANGED <<store, menuWrites, authVars>>

(***************************************************************************)
(* The other order routes.                                                 *)
(***************************************************************************)
OrderIds == 1..MaxOrders
StatusInputs == OrderStatus \cup {"", "cancelled"}     \* "": no status in the body

\* PUT /orders/:id/status (staff, admin): order.update, then notification.create
UpdateStatusNoNotification(cred, id, status) ==
  LET auth == requireRole({"staff", "admin"}, authenticateToken(cred))
  IN /\ Len(notifications) + CreatesInFlight < MaxNotifications
     /\ IF ~auth.next
          THEN Respond("updateStatus", auth, auth.code, auth.error, NoOrder)
               /\ UNCHANGED <<orders, notifications>>
        ELSE IF status = ""
          THEN Respond("updateStatus", auth, 400, "Status is required", NoOrder)
               /\ UNCHANGED <<orders, notifications>>
        ELSE IF status \notin OrderStatus
          THEN Respond("updateStatus", auth, 400, "Invalid status", NoOrder)
               /\ UNCHANGED <<orders, notifications>>
        ELSE IF id \notin DOMAIN orders
          THEN Respond("updateStatus", auth, 500, "Failed to update order status", NoOrder)
               /\ UNCHANGED <<orders, notifications>>
        ELSE /\ orders' = [orders EXCEPT ![id].status = status]
             /\ IF orders[id].userId = Null
                  THEN /\ UNCHANGED notifications
                       /\ Respond("updateStatus", auth, 500, "Failed to update order status", NoOrder)
                  ELSE /\ UNCHANGED notifications
                       /\ Respond("updateStatus", auth, 200, "", id)
     /\ UNCHANGED <<menu, orderItems, inventoryLogs, payments, nextOrderId, menuWrites, inflight, categories, authVars>>

UpdateStatusTerminalClosed(cred, id, status) ==
  LET auth == requireRole({"staff", "admin"}, authenticateToken(cred))
  IN /\ Len(notifications) + CreatesInFlight < MaxNotifications
     /\ IF ~auth.next
          THEN Respond("updateStatus", auth, auth.code, auth.error, NoOrder)
               /\ UNCHANGED <<orders, notifications>>
        ELSE IF status = ""
          THEN Respond("updateStatus", auth, 400, "Status is required", NoOrder)
               /\ UNCHANGED <<orders, notifications>>
        ELSE IF status \notin OrderStatus
          THEN Respond("updateStatus", auth, 400, "Invalid status", NoOrder)
               /\ UNCHANGED <<orders, notifications>>
        ELSE IF id \notin DOMAIN orders
          THEN Respond("updateStatus", auth, 500, "Failed to update order status", NoOrder)
               /\ UNCHANGED <<orders, notifications>>
        ELSE IF orders[id].status \in {"rejected", "picked_up"}
          THEN Respond("updateStatus", auth, 400, "Invalid status", NoOrder)
               /\ UNCHANGED <<orders, notifications>>
        ELSE /\ orders' = [orders EXCEPT ![id].status = status]
             /\ IF orders[id].userId = Null
                  THEN /\ UNCHANGED notifications
                       /\ Respond("updateStatus", auth, 500, "Failed to update order status", NoOrder)
                  ELSE /\ notifications' = Append(notifications,
                             [userId |-> orders[id].userId, orderId |-> id,
                              message |-> <<"status", status>>, status |-> "unread"])
                       /\ Respond("updateStatus", auth, 200, "", id)
     /\ UNCHANGED <<menu, orderItems, inventoryLogs, payments, nextOrderId, menuWrites, inflight, categories, authVars>>

UpdateStatus(cred, id, status) ==
  LET auth == requireRole({"staff", "admin"}, authenticateToken(cred))
  IN /\ Len(notifications) + CreatesInFlight < MaxNotifications
     /\ IF ~auth.next
          THEN Respond("updateStatus", auth, auth.code, auth.error, NoOrder)
               /\ UNCHANGED <<orders, notifications>>
        ELSE IF status = ""
          THEN Respond("updateStatus", auth, 400, "Status is required", NoOrder)
               /\ UNCHANGED <<orders, notifications>>
        ELSE IF status \notin OrderStatus
          THEN Respond("updateStatus", auth, 400, "Invalid status", NoOrder)
               /\ UNCHANGED <<orders, notifications>>
        ELSE IF id \notin DOMAIN orders
          THEN Respond("updateStatus", auth, 500, "Failed to update order status", NoOrder)
               /\ UNCHANGED <<orders, notifications>>
        ELSE /\ orders' = [orders EXCEPT ![id].status = status]
             /\ IF orders[id].userId = Null
                  THEN /\ UNCHANGED notifications
                       /\ Respond("updateStatus", auth, 500, "Failed to update order status", NoOrder)
                  ELSE /\ notifications' = Append(notifications,
                             [userId |-> orders[id].userId, orderId |-> id,
                              message |-> <<"status", status>>, status |-> "unread"])
                       /\ Respond("updateStatus", auth, 200, "", id)
     /\ UNCHANGED <<menu, orderItems, inventoryLogs, payments, nextOrderId, menuWrites, inflight, categories, authVars>>

\* an Order row with no owning user (Order.userId is nullable since the POS
\* migration), written by the point of sale and by none of these routes
WalkInOrder ==
  /\ nextOrderId <= MaxOrders
  /\ orders' = orders @@ (nextOrderId :>
       [userId |-> Null, status |-> "pending", pickupType |-> "dine_in",
        totalPrice |-> CentsDecimal(220), paymentStatus |-> "pending", paymentConfirmed |-> FALSE])
  /\ nextOrderId' = nextOrderId + 1
  /\ UNCHANGED <<menu, orderItems, inventoryLogs, notifications, payments, menuWrites, inflight,
                 resp, categories, authVars>>

\* findMany({ orderBy: { createdAt: "desc" } }) over the orders `ids`: orders are
\* numbered in the order of their creation, so the latest has the greatest id
RECURSIVE findManyOrders(_)
findManyOrders(ids) ==
  IF ids = {} THEN <<>>
  ELSE LET latest == CHOOSE i \in ids : \A j \in ids : j <= i
       IN <<latest>> \o findManyOrders(ids \ {latest})

\* GET /orders (any authenticated caller): a student's own orders, or all orders;
\* the response carries the ids of the orders in its field list
ListOrdersUnfiltered(cred) ==
  LET auth == authenticateToken(cred)
  IN /\ IF ~auth.next
          THEN Respond("listOrders", auth, auth.code, auth.error, NoOrder)
        ELSE IF auth.role \in {"student", "staff", "admin"}
          THEN resp' = [role |-> auth.role, op |-> "listOrders", code |-> 200, error |-> "",
                        order |-> NoOrder, list |-> findManyOrders(DOMAIN orders)]
        ELSE Respond("listOrders", auth, 403, "Forbidden", NoOrder)
     /\ UNCHANGED <<store, menuWrites, inflight, authVars>>

ListOrders(cred) ==
  LET auth == authenticateToken(cred)
  IN /\ IF ~auth.next
          THEN Respond("listOrders", auth, auth.code, auth.error, NoOrder)
        ELSE IF auth.role = "student"
          THEN resp' = [role |-> auth.role, op |-> "listOrders", code |-> 200, error |-> "",
                        order |-> NoOrder,
                        list |-> findManyOrders({id \in DOMAIN orders : orders[id].userId = auth.user})]
        ELSE IF auth.role \in {"staff", "admin"}
          THEN resp' = [role |-> auth.role, op |-> "listOrders", code |-> 200, error |-> "",
                        order |-> NoOrder, list |-> findManyOrders(DOMAIN orders)]
        ELSE Respond("listOrders", auth, 403, "Forbidden", NoOrder)
     /\ UNCHANGED <<store, menuWrites, inflight, authVars>>

\* GET /orders/:id (any authenticated caller; a student only an own order)
GetOrderNoOwnerCheck(cred, id) ==
  LET auth == authenticateToken(cred)
  IN /\ IF ~auth.next THEN Respond("getOrder", auth, auth.code, auth.error, NoOrder)
        ELSE IF id \notin DOMAIN orders THEN Respond("getOrder", auth, 404, "Order not found", NoOrder)
        ELSE Respond("getOrder", auth, 200, "", id)
     /\ UNCHANGED <<store, menuWrites, inflight, authVars>>

GetOrder(cred, id) ==
  LET auth == authenticateToken(cred)
  IN /\ IF ~auth.next THEN Respond("getOrder", auth, auth.code, auth.error, NoOrder)
        ELSE IF id \notin DOMAIN orders THEN Respond("getOrder", auth, 404, "Order not found", NoOrder)
        ELSE IF auth.role = "student" /\ orders[id].userId # auth.user
          THEN Respond("getOrder", auth, 403, "Forbidden", NoOrder)
        ELSE Respond("getOrder", auth, 200, "", id)
     /\ UNCHANGED <<store, menuWrites, inflight, authVars>>

\* DELETE /orders/:id (staff, admin): orderItem.deleteMany, then order.delete, which
\* throws when the order is missing or a Notification row still references it
\* (ON DELETE RESTRICT); Payment.orderId is ON DELETE SET NULL
DeleteOrder(cred, id) ==
  LET auth       == requireRole({"staff", "admin"}, authenticateToken(cred))
      referenced == \E n \in 1..Len(notifications) : notifications[n].orderId = id
  IN /\ IF ~auth.next
          THEN Respond("deleteOrder", auth, auth.code, auth.error, NoOrder)
               /\ UNCHANGED <<orders, orderItems, payments>>
        ELSE /\ orderItems' = SelectSeq(orderItems, LAMBDA r : r.orderId # id)
             /\ IF id \notin DOMAIN orders \/ referenced
                  THEN /\ Respond("deleteOrder", auth, 500, "Failed to delete order", NoOrder)
                       /\ UNCHANGED <<orders, payments>>
                  ELSE /\ orders' = [o \in DOMAIN orders \ {id} |-> orders[o]]
                       /\ payments' = [n \in 1..Len(payments) |->
                                         IF payments[n].orderId = id
                                           THEN [payments[n] EXCEPT !.orderId = NoOrder]
                                           ELSE payments[n]]
                       /\ Respond("deleteOrder", auth, 200, "", NoOrder)
     /\ UNCHANGED <<menu, inventoryLogs, notifications, nextOrderId, menuWrites, inflight, categories, authVars>>

\* PATCH /orders/:id/confirm-payment (student) up to the await of order.update
ConfirmPaymentBegin(s, cred, id) ==
  LET auth == requireRole({"student"}, authenticateToken(cred))
  IN /\ FreeSlot(s)
     /\ IF ~auth.next
          THEN Respond("confirmPayment", auth, auth.code, auth.error, NoOrder) /\ UNCHANGED inflight
        ELSE IF id \notin DOMAIN orders
          THEN Respond("confirmPayment", auth, 404, "Order not found", NoOrder) /\ UNCHANGED inflight
        ELSE IF orders[id].userId # auth.user
          THEN Respond("confirmPayment", auth, 403, "Forbidden", NoOrder) /\ UNCHANGED inflight
        ELSE IF orders[id].status # "ready"
          THEN Respond("confirmPayment", auth, 400,
                       "You can only confirm payment when your order is ready.", NoOrder)
               /\ UNCHANGED inflight
        ELSE /\ inflight' = [inflight EXCEPT ![s] =
                  [op |-> "confirm", auth |-> auth, id |-> id, order |-> orders[id]]]
             /\ UNCHANGED resp
     /\ UNCHANGED <<store, menuWrites, authVars>>

\* order.update({ data: { paymentConfirmed: true } }), then the response
ConfirmPaymentWrite(s) ==
  /\ inflight[s].op = "confirm"
  /\ LET rq == inflight[s]
     IN IF rq.id \in DOMAIN orders
          THEN /\ orders' = [orders EXCEPT ![rq.id].paymentConfirmed = TRUE]
               /\ Respond("confirmPayment", rq.auth, 200, "", rq.id)
          ELSE /\ UNCHANGED orders
               /\ Respond("confirmPayment", rq.auth, 500, "Failed to confirm payment", NoOrder)
  /\ inflight' = [inflight EXCEPT ![s] = Idle]
  /\ UNCHANGED <<menu, orderItems, inventoryLogs, notifications, payments, nextOrderId, menuWrites, categories, authVars>>

\* PATCH /orders/:id/cancel (student) up to the await of order.update
CancelBegin(s, cred, id) ==
  LET auth == requireRole({"student"}, authenticateToken(cred))
  IN /\ FreeSlot(s)
     /\ IF ~auth.next
          THEN Respond("cancel", auth, auth.code, auth.error, NoOrder) /\ UNCHANGED inflight
        ELSE IF id \notin DOMAIN orders
          THEN Respond("cancel", auth, 404, "Order not found", NoOrder) /\ UNCHANGED inflight
        ELSE IF orders[id].userId # auth.user
          THEN Respond("cancel", auth, 403, "You can only cancel your own orders", NoOrder)
               /\ UNCHANGED inflight
        ELSE IF orders[id].status # "pending"
          THEN Respond("cancel", auth, 400, "Only pending orders can be cancelled", NoOrder)
               /\ UNCHANGED inflight
        ELSE /\ inflight' = [inflight EXCEPT ![s] =
                  [op |-> "cancel", auth |-> auth, id |-> id, order |-> orders[id]]]
             /\ UNCHANGED resp
     /\ UNCHANGED <<store, menuWrites, authVars>>

\* order.update({ data: { status: "rejected" } }), then the response
CancelWrite(s) ==
  /\ inflight[s].op = "cancel"
  /\ LET rq == inflight[s]
     IN IF rq.id \in DOMAIN orders
          THEN /\ orders' = [orders EXCEPT ![rq.id].status = "rejected"]
               /\ Respond("cancel", rq.auth, 200, "", rq.id)
          ELSE /\ UNCHANGED orders
               /\ Respond("cancel", rq.auth, 500, "Failed to cancel order", NoOrder)
  /\ inflight' = [inflight EXCEPT ![s] = Idle]
  /\ UNCHANGED <<menu, orderItems, inventoryLogs, notifications, payments, nextOrderId, menuWrites, categories, authVars>>

(***************************************************************************)
(* POST /payments (any authenticated caller): the payment row, then the    *)
(* linked order marked paid and picked up.                                 *)
(***************************************************************************)
AmountsReceived == {0, 500}       \* cents; 0: no amountReceived in the body
OrderRefs == {NoOrder} \cup OrderIds

createPaymentStatusKept(cred, orderId, amountReceived) ==
  LET auth        == authenticateToken(cred)
      received    == NumberOfCents(amountReceived)
      totalAmount == IF orderId # NoOrder THEN NumberOfDecimal(orders[orderId].totalPrice)
                                          ELSE received
      changeDue   == FSub(received, totalAmount)
  IN /\ Len(payments) < MaxPayments
     /\ IF ~auth.next
          THEN Respond("createPayment", auth, auth.code, auth.error, NoOrder)
               /\ UNCHANGED <<orders, payments>>
        ELSE IF amountReceived = 0
          THEN Respond("createPayment", auth, 400, "Amount received is required.", NoOrder)
               /\ UNCHANGED <<orders, payments>>
        ELSE IF orderId # NoOrder /\ orderId \notin DOMAIN orders
          THEN Respond("createPayment", auth, 404, "Order not found.", NoOrder)
               /\ UNCHANGED <<orders, payments>>
        ELSE /\ payments' = Append(payments,
                   [orderId |-> orderId, processedById |-> auth.user,
                    amountReceived |-> DecimalOfNumber(received),
                    amountDue |-> DecimalOfNumber(totalAmount),
                    change |-> DecimalOfNumber(changeDue), paymentMethod |-> "cash"])
             /\ IF orderId # NoOrder
                  THEN orders' = [orders EXCEPT ![orderId].paymentStatus = "paid"]
                  ELSE UNCHANGED orders
             /\ Respond("createPayment", auth, 201, "", orderId)
     /\ UNCHANGED <<menu, orderItems, inventoryLogs, notifications, nextOrderId, menuWrites, inflight, categories, authVars>>

createPaymentRejectUnderpaid(cred, orderId, amountReceived) ==
  LET auth        == authenticateToken(cred)
      received    == NumberOfCents(amountReceived)
      totalAmount == IF orderId # NoOrder THEN NumberOfDecimal(orders[orderId].totalPrice)
                                          ELSE received
      changeDue   == FSub(received, totalAmount)
  IN /\ Len(payments) < MaxPayments
     /\ IF ~auth.next
          THEN Respond("createPayment", auth, auth.code, auth.error, NoOrder)
               /\ UNCHANGED <<orders, payments>>
        ELSE IF amountReceived = 0
          THEN Respond("createPayment", auth, 400, "Amount received is required.", NoOrder)
               /\ UNCHANGED <<orders, payments>>
        ELSE IF orderId # NoOrder /\ orderId \notin DOMAIN orders
          THEN Respond("createPayment", auth, 404, "Order not found.", NoOrder)
               /\ UNCHANGED <<orders, payments>>
        ELSE IF changeDue.s = -1
          THEN Respond("createPayment", auth, 400, "Insufficient amount.", NoOrder)
               /\ UNCHANGED <<orders, payments>>
        ELSE /\ payments' = Append(payments,
                   [orderId |-> orderId, processedById |-> auth.user,
                    amountReceived |-> DecimalOfNumber(received),
                    amountDue |-> DecimalOfNumber(totalAmount),
                    change |-> DecimalOfNumber(changeDue), paymentMethod |-> "cash"])
             /\ IF orderId # NoOrder
                  THEN orders' = [orders EXCEPT ![orderId].paymentStatus = "paid",
                                                ![orderId].status = "picked_up"]
                  ELSE UNCHANGED orders
             /\ Respond("createPayment", auth, 201, "", orderId)
     /\ UNCHANGED <<menu, orderItems, inventoryLogs, notifications, nextOrderId, menuWrites, inflight, categories, authVars>>

createPayment(cred, orderId, amountReceived) ==
  LET auth        == authenticateToken(cred)
      received    == NumberOfCents(amountReceived)
      totalAmount == IF orderId # NoOrder THEN NumberOfDecimal(orders[orderId].totalPrice)
                                          ELSE received
      changeDue   == FSub(received, totalAmount)
  IN /\ Len(payments) < MaxPayments
     /\ IF ~auth.next
          THEN Respond("createPayment", auth, auth.code, auth.error, NoOrder)
               /\ UNCHANGED <<orders, payments>>
        ELSE IF amountReceived = 0
          THEN Respond("createPayment", auth, 400, "Amount received is required.", NoOrder)
               /\ UNCHANGED <<orders, payments>>
        ELSE IF orderId # NoOrder /\ orderId \notin DOMAIN orders
          THEN Respond("createPayment", auth, 404, "Order not found.", NoOrder)
               /\ UNCHANGED <<orders, payments>>
        ELSE /\ payments' = Append(payments,
                   [orderId |-> orderId, processedById |-> auth.user,
                    amountReceived |-> DecimalOfNumber(received),
                    amountDue |-> DecimalOfNumber(totalAmount),
                    change |-> DecimalOfNumber(changeDue), paymentMethod |-> "cash"])
             /\ IF orderId # NoOrder
                  THEN orders' = [orders EXCEPT ![orderId].paymentStatus = "paid",
                                                ![orderId].status = "picked_up"]
                  ELSE UNCHANGED orders
             /\ Respond("createPayment", auth, 201, "", orderId)
     /\ UNCHANGED <<menu, orderItems, inventoryLogs, notifications, nextOrderId, menuWrites, inflight, categories, authVars>>

\* DELETE /payments/:id (any authenticated caller): payment.delete, which throws when
\* no payment has the id; a payment is identified by its row
PaymentIds == 1..(MaxPayments + 1)

deletePaymentAndReopen(cred, id) ==
  LET auth == authenticateToken(cred)
  IN /\ IF ~auth.next
          THEN Respond("deletePayment", auth, auth.code, auth.error, NoOrder)
               /\ UNCHANGED <<orders, payments>>
        ELSE IF id \notin DOMAIN payments
          THEN Respond("deletePayment", auth, 500, "Failed to delete payment", NoOrder)
               /\ UNCHANGED <<orders, payments>>
        ELSE /\ payments' = SubSeq(payments, 1, id - 1) \o SubSeq(payments, id + 1, Len(payments))
             /\ orders' = [o \in DOMAIN orders |->
                             IF payments[id].orderId = o
                               THEN [orders[o] EXCEPT !.paymentStatus = "pending"]
                               ELSE orders[o]]
             /\ Respond("deletePayment", auth, 200, "", NoOrder)
     /\ UNCHANGED <<menu, orderItems, inventoryLogs, notifications, nextOrderId, menuWrites, inflight, categories, authVars>>

deletePayment(cred, id) ==
  LET auth == authenticateToken(cred)
  IN /\ IF ~auth.next
          THEN Respond("deletePayment", auth, auth.code, auth.error, NoOrder)
               /\ UNCHANGED <<orders, payments>>
        ELSE IF id \notin DOMAIN payments
          THEN Respond("deletePayment", auth, 500, "Failed to delete payment", NoOrder)
               /\ UNCHANGED <<orders, payments>>
        ELSE /\ payments' = SubSeq(payments, 1, id - 1) \o SubSeq(payments, id + 1, Len(payments))
             /\ UNCHANGED orders
             /\ Respond("deletePayment", auth, 200, "", NoOrder)
     /\ UNCHANGED <<menu, orderItems, inventoryLogs, notifications, nextOrderId, menuWrites, inflight, categories, authVars>>

(***************************************************************************)
(* Notifications of the caller: PATCH /notifications/:id/read, PATCH       *)
(* /notifications/mark-all and GET /notifications/unread-count. A          *)
(* notification is identified by its row.                                  *)
(***************************************************************************)
NotificationIds == 1..(MaxNotifications + 1)

\* notification.update({where: {id}, data: {status: "read"}})
MarkedRead(rows, id) == [rows EXCEPT ![id].status = "read"]

\* notification.updateMany({where: {userId, status: "unread"}, data: {status: "read"}})
MarkedAllToggled(rows, userId) ==
  [n \in 1..Len(rows) |->
     IF rows[n].userId = userId
       THEN [rows[n] EXCEPT !.status = IF rows[n].status = "unread" THEN "read" ELSE "unread"]
       ELSE rows[n]]

MarkedAllRead(rows, userId) ==
  [n \in 1..Len(rows) |->
     IF rows[n].userId = userId /\ rows[n].status = "unread"
       THEN [rows[n] EXCEPT !.status = "read"]
       ELSE rows[n]]

\* notification.count({where: {userId, status: "unread"}})
UnreadCount(rows, userId) ==
  Cardinality({n \in 1..Len(rows) : rows[n].userId = userId /\ rows[n].status = "unread"})

markRead(cred, id) ==
  LET auth == authenticateToken(cred)
  IN /\ IF ~auth.next
          THEN Respond("markRead", auth, auth.code, auth.error, NoOrder)
               /\ UNCHANGED notifications
        ELSE IF id \notin DOMAIN notifications
          THEN Respond("markRead", auth, 500, "Failed to update notification", NoOrder)
               /\ UNCHANGED notifications
        ELSE /\ notifications' = MarkedRead(notifications, id)
             /\ Respond("markRead", auth, 200, "", NoOrder)
     /\ UNCHANGED <<menu, orders, orderItems, inventoryLogs, payments, nextOrderId, menuWrites,
                    inflight, categories, authVars>>

markAllRead(cred) ==
  LET auth == authenticateToken(cred)
  IN /\ IF ~auth.next
          THEN Respond("markAllRead", auth, auth.code, auth.error, NoOrder)
               /\ UNCHANGED notifications
        ELSE /\ notifications' = MarkedAllRead(notifications, auth.user)
             /\ Respond("markAllRead", auth, 200, "", NoOrder)
     /\ UNCHANGED <<menu, orders, orderItems, inventoryLogs, payments, nextOrderId, menuWrites,
                    inflight, categories, authVars>>

\* the response carries the count in its field unread
unreadCount(cred) ==
  LET auth == authenticateToken(cred)
  IN /\ IF ~auth.next
          THEN Respond("unreadCount", auth, auth.code, auth.error, NoOrder)
          ELSE resp' = [role |-> auth.role, op |-> "unreadCount", code |-> 200, error |-> "",
                        order |-> NoOrder, unread |-> UnreadCount(notifications, auth.user)]
     /\ UNCHANGED <<store, menuWrites, inflight, authVars>>

(***************************************************************************)
(* Menu management (staff): PUT /menu/:id and DELETE /menu/:id.            *)
(***************************************************************************)
MaxStock == 2
Undefined == <<>>
MenuPatches ==
  {[price |-> <<p>>, availability |-> Undefined, stockLimit |-> Undefined] : p \in Prices}
  \cup {[price |-> Undefined, availability |-> <<a>>, stockLimit |-> Undefined] : a \in BOOLEAN}
  \cup {[price |-> Undefined, availability |-> Undefined, stockLimit |-> <<l>>] :
          l \in {NullStock} \cup {Stock(n) : n \in 0..MaxStock}}

\* menuItem.update: a field the body leaves undefined keeps its value
UpdateMenuItem(cred, id, patch) ==
  LET auth == requireRole({"staff"}, authenticateToken(cred))
  IN /\ menuWrites < MaxMenuWrites
     /\ IF ~auth.next
          THEN Respond("updateMenuItem", auth, auth.code, auth.error, NoOrder)
               /\ UNCHANGED <<menu, menuWrites>>
        ELSE IF id \notin DOMAIN menu
          THEN Respond("updateMenuItem", auth, 500, "Failed to update menu item", NoOrder)
               /\ UNCHANGED <<menu, menuWrites>>
        ELSE /\ menu' = [menu EXCEPT ![id] =
                  [price        |-> IF patch.price = Undefined THEN @.price ELSE patch.price[1],
                   availability |-> IF patch.availability = Undefined THEN @.availability
                                    ELSE patch.availability[1],
                   stockLimit   |-> IF patch.stockLimit = Undefined THEN @.stockLimit
                                    ELSE patch.stockLimit[1]]]
             /\ menuWrites' = menuWrites + 1
             /\ Respond("updateMenuItem", auth, 200, "", NoOrder)
     /\ UNCHANGED <<orders, orderItems, inventoryLogs, notifications, payments, nextOrderId, inflight, categories, authVars>>

\* menuItem.delete: throws when the item is missing or an OrderItem or InventoryLog
\* row references it (ON DELETE RESTRICT)
DeleteMenuItem(cred, id) ==
  LET auth       == requireRole({"staff"}, authenticateToken(cred))
      referenced == \/ \E n \in 1..Len(orderItems) : orderItems[n].itemId = id
                    \/ \E n \in 1..Len(inventoryLogs) : inventoryLogs[n].itemId = id
  IN /\ menuWrites < MaxMenuWrites
     /\ IF ~auth.next
          THEN Respond("deleteMenuItem", auth, auth.code, auth.error, NoOrder)
               /\ UNCHANGED <<menu, menuWrites>>
        ELSE IF id \notin DOMAIN menu \/ referenced
          THEN Respond("deleteMenuItem", auth, 500, "Failed to delete menu item", NoOrder)
               /\ UNCHANGED <<menu, menuWrites>>
        ELSE /\ menu' = [i \in DOMAIN menu \ {id} |-> menu[i]]
             /\ menuWrites' = menuWrites + 1
             /\ Respond("deleteMenuItem", auth, 200, "", NoOrder)
     /\ UNCHANGED <<orders, orderItems, inventoryLogs, notifications, payments, nextOrderId, inflight, categories, authVars>>

(***************************************************************************)
(* Menu categories (staff): POST, PUT and DELETE /menu/categories; the     *)
(* creation of a menu item; and the public reads of both.                  *)
(***************************************************************************)
Anonymous == [role |-> "none"]                 \* the caller of a route without authenticateToken

MaxCategories == 2
CategoryIds == 1..(MaxCategories + 1)
CategoryNames == {"Meals", "Drinks"}
CategoryNameInputs == CategoryNames \cup {""}      \* "": no name in the body
NewItemId == "C"                                   \* the id of a created menu item
PriceInputs == {<<p>> : p \in Prices} \cup {Undefined}

\* the id of the next MenuCategory row
FreshCategoryId == CHOOSE i \in 1..MaxCategories :
                     i \notin DOMAIN categories /\ \A j \in 1..(i - 1) : j \in DOMAIN categories

CreateCategoryUngated(cred, name) ==
  LET auth == authenticateToken(cred)
  IN /\ IF name = ""
          THEN Respond("createCategory", auth, 400, "Name required", NoOrder)
               /\ UNCHANGED categories
        ELSE /\ Cardinality(DOMAIN categories) < MaxCategories
             /\ categories' = categories @@ (FreshCategoryId :> [name |-> name])
             /\ Respond("createCategory", auth, 200, "", NoOrder)
     /\ UNCHANGED <<menu, orders, orderItems, inventoryLogs, notifications, payments, nextOrderId,
                    menuWrites, inflight, authVars>>

CreateCategory(cred, name) ==
  LET auth == requireRole({"staff"}, authenticateToken(cred))
  IN /\ IF ~auth.next
          THEN Respond("createCategory", auth, auth.code, auth.error, NoOrder)
               /\ UNCHANGED categories
        ELSE IF name = ""
          THEN Respond("createCategory", auth, 400, "Name required", NoOrder)
               /\ UNCHANGED categories
        ELSE /\ Cardinality(DOMAIN categories) < MaxCategories
             /\ categories' = categories @@ (FreshCategoryId :> [name |-> name])
             /\ Respond("createCategory", auth, 200, "", NoOrder)
     /\ UNCHANGED <<menu, orders, orderItems, inventoryLogs, notifications, payments, nextOrderId,
                    menuWrites, inflight, authVars>>

\* menuCategory.update throws when no category has the id
UpdateCategory(cred, id, name) ==
  LET auth == requireRole({"staff"}, authenticateToken(cred))
  IN /\ IF ~auth.next
          THEN Respond("updateCategory", auth, auth.code, auth.error, NoOrder)
               /\ UNCHANGED categories
        ELSE IF id \notin DOMAIN categories
          THEN Respond("updateCategory", auth, 500, "Failed to update category", NoOrder)
               /\ UNCHANGED categories
        ELSE /\ categories' = [categories EXCEPT ![id].name = IF name = "" THEN @ ELSE name]
             /\ Respond("updateCategory", auth, 200, "", NoOrder)
     /\ UNCHANGED <<menu, orders, orderItems, inventoryLogs, notifications, payments, nextOrderId,
                    menuWrites, inflight, authVars>>

\* menuCategory.delete throws when no category has the id
DeleteCategory(cred, id) ==
  LET auth == requireRole({"staff"}, authenticateToken(cred))
  IN /\ IF ~auth.next
          THEN Respond("deleteCategory", auth, auth.code, auth.error, NoOrder)
               /\ UNCHANGED categories
        ELSE IF id \notin DOMAIN categories
          THEN Respond("deleteCategory", auth, 500, "Failed to delete category", NoOrder)
               /\ UNCHANGED categories
        ELSE /\ categories' = [c \in DOMAIN categories \ {id} |-> categories[c]]
             /\ Respond("deleteCategory", auth, 200, "", NoOrder)
     /\ UNCHANGED <<menu, orders, orderItems, inventoryLogs, notifications, payments, nextOrderId,
                    menuWrites, inflight, authVars>>

\* GET /menu/categories: no middleware
GetCategories(cred) ==
  /\ Respond("getCategories", Anonymous, 200, "", NoOrder)
  /\ UNCHANGED <<store, menuWrites, inflight, authVars>>

\* GET /menu: no middleware
GetMenu(cred) ==
  /\ Respond("getMenu", Anonymous, 200, "", NoOrder)
  /\ UNCHANGED <<store, menuWrites, inflight, authVars>>

\* POST /menu (staff): menuItem.create, which throws without a price
CreateMenuItem(cred, price) ==
  LET auth == requireRole({"staff"}, authenticateToken(cred))
  IN /\ menuWrites < MaxMenuWrites
     /\ NewItemId \notin DOMAIN menu
     /\ IF ~auth.next
          THEN Respond("createMenuItem", auth, auth.code, auth.error, NoOrder)
               /\ UNCHANGED <<menu, menuWrites>>
        ELSE IF price = Undefined
          THEN Respond("createMenuItem", auth, 500, "Failed to create menu item", NoOrder)
               /\ UNCHANGED <<menu, menuWrites>>
        ELSE /\ menu' = menu @@ (NewItemId :>
                          [price |-> price[1], availability |-> TRUE, stockLimit |-> NullStock])
             /\ menuWrites' = menuWrites + 1
             /\ Respond("createMenuItem", auth, 200, "", NoOrder)
     /\ UNCHANGED <<orders, orderItems, inventoryLogs, notifications, payments, nextOrderId, inflight,
                    categories, authVars>>

(***************************************************************************)
(* Accounts: staff registration and approval, the two logins, and the      *)
(* password reset.  None of these routes sits behind authenticateToken     *)
(* except the approval, which is for admins.                               *)
(***************************************************************************)
MaxUsers == 2          \* rows of the User table
MaxResets == 2         \* password-reset tokens issued
MaxClock == 20         \* the last minute of the clock
TickMinutes == 5       \* minutes that pass in one step of the clock
ResetExpiryMinutes == 15

EmailInputs == Emails \cup {""}                \* "": no email in the body
PasswordInputs == Passwords \cup {""}          \* "": no password in the body
UserIds == 1..MaxUsers

\* prisma.user.findUnique({ where: { email } }): the ids of the rows found
findUserByEmail(email) == {u \in DOMAIN users : users[u].email = email}

\* jwt.sign({ userId: user.id, role: user.role }, JWT_SECRET, ...)
Sign(u) == [userId |-> u, role |-> users[u].role]

\* sendEmail(to, subject, text): it returns, or transporter.sendMail throws
MailOutcomes == {"sent", "failed"}

NewUserApproved(email, password, role) ==
  [email |-> email, role |-> role, approved |-> TRUE, password |-> password,
   fullName |-> "New User",
   resetPasswordToken |-> NoResetToken, resetPasswordExpires |-> NoExpiry]

\* the row prisma.user.create stores
NewUser(email, password, role) ==
  [email |-> email, role |-> role, approved |-> FALSE, password |-> password,
   fullName |-> "New User",
   resetPasswordToken |-> NoResetToken, resetPasswordExpires |-> NoExpiry]

\* prisma.user.create under the unique index User_email_key: the table with the new
\* row, or the table as it was when the insert violates the index and throws
UserCreate(table, row) ==
  IF \E u \in DOMAIN table : table[u].email = row.email
    THEN table
    ELSE table @@ ((Cardinality(DOMAIN table) + 1) :> row)

\* POST /auth/register-staff up to the awaits of bcrypt.hash and user.create
registerStaffBegin(s, email, password) ==
  /\ FreeSlot(s)
  /\ IF email = "" \/ password = ""
       THEN Respond("registerStaff", Anonymous, 400, "All fields are required", NoOrder)
            /\ UNCHANGED inflight
     ELSE IF findUserByEmail(email) # {}
       THEN Respond("registerStaff", Anonymous, 400, "Email already in use", NoOrder)
            /\ UNCHANGED inflight
     ELSE /\ inflight' = [inflight EXCEPT ![s] =
               [op |-> "registerStaff", email |-> email, password |-> password]]
          /\ UNCHANGED resp
  /\ UNCHANGED <<store, menuWrites, authVars>>

\* user.create, then the mail in its own try/catch, then 201 without a token
registerStaffCreate(s, mail) ==
  /\ inflight[s].op = "registerStaff"
  /\ findUserByEmail(inflight[s].email) # {} \/ Cardinality(DOMAIN users) < MaxUsers
  /\ users' = UserCreate(users, NewUser(inflight[s].email, inflight[s].password, "staff"))
  /\ IF users' = users
       THEN Respond("registerStaff", Anonymous, 500, "Server error", NoOrder)
       ELSE Respond("registerStaff", Anonymous, 201, "", NoOrder)
  /\ inflight' = [inflight EXCEPT ![s] = Idle]
  /\ UNCHANGED <<store, menuWrites, signed, nextResetToken, clock>>

\* POST /auth/register up to the awaits of bcrypt.hash and user.create
registerBegin(s, email, password) ==
  /\ FreeSlot(s)
  /\ IF email = "" \/ password = ""
       THEN Respond("register", Anonymous, 400, "Missing required fields", NoOrder)
            /\ UNCHANGED inflight
     ELSE IF findUserByEmail(email) # {}
       THEN Respond("register", Anonymous, 400, "Email already used", NoOrder)
            /\ UNCHANGED inflight
     ELSE /\ inflight' = [inflight EXCEPT ![s] =
               [op |-> "register", email |-> email, password |-> password]]
          /\ UNCHANGED resp
  /\ UNCHANGED <<store, menuWrites, authVars>>

\* user.create, then the mail of the verification code, then the token
registerCreate(s, mail) ==
  /\ inflight[s].op = "register"
  /\ findUserByEmail(inflight[s].email) # {} \/ Cardinality(DOMAIN users) < MaxUsers
  /\ users' = UserCreate(users, NewUser(inflight[s].email, inflight[s].password, "student"))
  /\ IF users' = users \/ mail = "failed"
       THEN Respond("register", Anonymous, 500, "Something went wrong", NoOrder)
            /\ UNCHANGED signed
       ELSE /\ signed' = signed \cup {[userId |-> Cardinality(DOMAIN users) + 1, role |-> "student"]}
            /\ Respond("register", Anonymous, 200, "", NoOrder)
  /\ inflight' = [inflight EXCEPT ![s] = Idle]
  /\ UNCHANGED <<store, menuWrites, nextResetToken, clock>>

\* POST /auth/approve-staff/:id (admin): user.update({ data: { approved: true } }),
\* then the mail in its own try/catch
approveStaff(cred, id, mail) ==
  LET auth == requireRole({"admin"}, authenticateToken(cred))
  IN /\ IF ~auth.next
          THEN Respond("approveStaff", auth, auth.code, auth.error, NoOrder) /\ UNCHANGED users
        ELSE IF id \notin DOMAIN users
          THEN Respond("approveStaff", auth, 500, "Server error", NoOrder) /\ UNCHANGED users
        ELSE /\ users' = [users EXCEPT ![id].approved = TRUE]
             /\ Respond("approveStaff", auth, 200, "", NoOrder)
     /\ UNCHANGED <<store, menuWrites, inflight, signed, nextResetToken, clock>>

\* POST /auth/login
login(email, password) ==
  LET found == findUserByEmail(email)
  IN /\ IF found = {}
          THEN Respond("login", Anonymous, 401, "Invalid email or password", NoOrder)
               /\ UNCHANGED signed
        ELSE \E u \in found :
               IF users[u].password # password
                 THEN Respond("login", Anonymous, 401, "Invalid email or password", NoOrder)
                      /\ UNCHANGED signed
               ELSE /\ signed' = signed \cup {Sign(u)}
                    /\ Respond("login", Anonymous, 200, "", NoOrder)
     /\ UNCHANGED <<store, menuWrites, inflight, users, nextResetToken, clock>>

\* POST /auth/login-staff
loginStaffAdminsApproved(email, password) ==
  LET found == findUserByEmail(email)
  IN /\ IF found = {}
          THEN Respond("loginStaff", Anonymous, 401, "Invalid email or password", NoOrder)
               /\ UNCHANGED signed
        ELSE \E u \in found :
               IF users[u].role \notin {"staff", "admin"}
                 THEN Respond("loginStaff", Anonymous, 403, "Unauthorized: staff only", NoOrder)
                      /\ UNCHANGED signed
               ELSE IF users[u].role # "staff" /\ ~users[u].approved
                 THEN Respond("loginStaff", Anonymous, 403,
                              "Your account is pending admin approval.", NoOrder)
                      /\ UNCHANGED signed
               ELSE IF users[u].password # password
                 THEN Respond("loginStaff", Anonymous, 401, "Invalid email or password", NoOrder)
                      /\ UNCHANGED signed
               ELSE /\ signed' = signed \cup {Sign(u)}
                    /\ Respond("loginStaff", Anonymous, 200, "", NoOrder)
     /\ UNCHANGED <<store, menuWrites, inflight, users, nextResetToken, clock>>

loginStaff(email, password) ==
  LET found == findUserByEmail(email)
  IN /\ IF found = {}
          THEN Respond("loginStaff", Anonymous, 401, "Invalid email or password", NoOrder)
               /\ UNCHANGED signed
        ELSE \E u \in found :
               IF users[u].role \notin {"staff", "admin"}
                 THEN Respond("loginStaff", Anonymous, 403, "Unauthorized: staff only", NoOrder)
                      /\ UNCHANGED signed
               ELSE IF users[u].role = "staff" /\ ~users[u].approved
                 THEN Respond("loginStaff", Anonymous, 403,
                              "Your account is pending admin approval.", NoOrder)
                      /\ UNCHANGED signed
               ELSE IF users[u].password # password
                 THEN Respond("loginStaff", Anonymous, 401, "Invalid email or password", NoOrder)
                      /\ UNCHANGED signed
               ELSE /\ signed' = signed \cup {Sign(u)}
                    /\ Respond("loginStaff", Anonymous, 200, "", NoOrder)
     /\ UNCHANGED <<store, menuWrites, inflight, users, nextResetToken, clock>>

\* POST /auth/forgot: a fresh random token, valid for 15 minutes from now, stored
\* before the mail with the reset link is sent
forgotPassword(email, mail) ==
  LET found == findUserByEmail(email)
  IN /\ nextResetToken <= MaxResets
     /\ IF email = ""
          THEN Respond("forgotPassword", Anonymous, 400, "Email is required", NoOrder)
               /\ UNCHANGED <<users, nextResetToken>>
        ELSE IF found = {}
          THEN Respond("forgotPassword", Anonymous, 404, "No account found", NoOrder)
               /\ UNCHANGED <<users, nextResetToken>>
        ELSE \E u \in found :
               /\ users' = [users EXCEPT ![u].resetPasswordToken = nextResetToken,
                                         ![u].resetPasswordExpires = clock + ResetExpiryMinutes]
               /\ nextResetToken' = nextResetToken + 1
               /\ IF mail = "failed"
                    THEN Respond("forgotPassword", Anonymous, 500, "Server error", NoOrder)
                    ELSE Respond("forgotPassword", Anonymous, 200, "", NoOrder)
     /\ UNCHANGED <<store, menuWrites, inflight, signed, clock>>

\* the reset tokens a caller can present: none, every token issued, one never issued
ResetTokenInputs == 0..(MaxResets + 1)

\* prisma.user.findFirst({ where: { resetPasswordToken: token,
\*                                  resetPasswordExpires: { gt: new Date() } } })
findUserByResetToken(token) ==
  {u \in DOMAIN users : users[u].resetPasswordToken = token /\ users[u].resetPasswordExpires > clock}

\* POST /auth/reset/:token up to the awaits of bcrypt.hash and user.update
resetPasswordBegin(s, token, newPassword) ==
  LET found == findUserByResetToken(token)
  IN /\ FreeSlot(s)
     /\ IF token = NoResetToken \/ newPassword = ""
          THEN Respond("resetPassword", Anonymous, 400, "Missing token or new password", NoOrder)
               /\ UNCHANGED inflight
        ELSE IF found = {}
          THEN Respond("resetPassword", Anonymous, 400, "Invalid or expired token", NoOrder)
               /\ UNCHANGED inflight
        ELSE \E u \in found :
               /\ inflight' = [inflight EXCEPT ![s] =
                    [op |-> "reset", user |-> u, token |-> token, newPassword |-> newPassword]]
               /\ UNCHANGED resp
     /\ UNCHANGED <<store, menuWrites, authVars>>

\* user.update({ data: { passwordHash, resetPasswordToken: null, resetPasswordExpires: null } })
resetPasswordWrite(s) ==
  /\ inflight[s].op = "reset"
  /\ users' = [users EXCEPT ![inflight[s].user].password = inflight[s].newPassword,
                            ![inflight[s].user].resetPasswordToken = NoResetToken,
                            ![inflight[s].user].resetPasswordExpires = NoExpiry]
  /\ Respond("resetPassword", Anonymous, 200, "", NoOrder)
  /\ inflight' = [inflight EXCEPT ![s] = Idle]
  /\ UNCHANGED <<store, menuWrites, signed, nextResetToken, clock>>

(***************************************************************************)
(* GET /auth/me and PUT /auth/update: the handlers behind authenticateToken *)
(* that read the caller's id from req.user.                                *)
(***************************************************************************)
\* the Authorization header that carries a token signed by a login
Bearer(t) == [kind |-> "jwt", userId |-> t.userId, role |-> t.role]

\* req.user as authenticateToken leaves it: { id: decoded.userId, role: decoded.role }
ReqUser(auth) == [id |-> auth.user, role |-> auth.role]

\* the read of a property of an object: <<value>>, or undefined when the object
\* has no property of that name
Get(obj, name) == IF name \in DOMAIN obj THEN <<obj[name]>> ELSE Undefined

FullNameInputs == {"", "Renamed"}           \* "": no fullName in the body

\* getCurrentUser: user.findUnique({ where: { id: req.user.userId } }), which
\* throws when the id is undefined
getCurrentUser(cred) ==
  LET auth   == authenticateToken(cred)
      userId == Get(ReqUser(auth), "userId")
  IN /\ IF ~auth.next
          THEN Respond("getCurrentUser", auth, auth.code, auth.error, NoOrder)
        ELSE IF userId = Undefined
          THEN Respond("getCurrentUser", auth, 500, "Internal server error", NoOrder)
        ELSE IF userId[1] \notin DOMAIN users
          THEN Respond("getCurrentUser", auth, 404, "User not found", NoOrder)
        ELSE resp' = [op |-> "getCurrentUser", role |-> auth.role, code |-> 200, error |-> "",
                      order |-> NoOrder, user |-> userId[1]]
     /\ UNCHANGED <<store, menuWrites, inflight, authVars>>

\* PUT /auth/update: user.update({ where: { id: userId }, data: { fullName, ... } })
\* with userId destructured from req.user; the update throws when the id is
\* undefined or names no row
updateUser(cred, fullName) ==
  LET auth   == authenticateToken(cred)
      userId == Get(ReqUser(auth), "userId")
  IN /\ IF ~auth.next
          THEN Respond("updateUser", auth, auth.code, auth.error, NoOrder) /\ UNCHANGED users
        ELSE IF userId = Undefined \/ userId[1] \notin DOMAIN users
          THEN Respond("updateUser", auth, 500, "Failed to update user", NoOrder) /\ UNCHANGED users
        ELSE /\ users' = [users EXCEPT ![userId[1]].fullName =
                            IF fullName = "" THEN @ ELSE fullName]
             /\ resp' = [op |-> "updateUser", role |-> auth.role, code |-> 200, error |-> "",
                         order |-> NoOrder, user |-> userId[1]]
     /\ UNCHANGED <<store, menuWrites, inflight, signed, nextResetToken, clock>>

\* time passes
Tick ==
  /\ clock + TickMinutes <= MaxClock
  /\ clock' = clock + TickMinutes
  /\ UNCHANGED <<store, menuWrites, inflight, resp, users, signed, nextResetToken>>

(***************************************************************************)
(* The system: any request at any time, any suspended handler resumed.     *)
(***************************************************************************)
MaxStatements == 1 + 2 * MaxLines      \* statements of the order transaction

Next ==
  \/ \E s \in Slots, cred \in Credentials, items \in ItemLists, pickupType \in PickupInputs :
       CreateOrderBegin(s, cred, items, pickupType)
  \/ \E s \in Slots, failAt \in 0..MaxStatements : CreateOrderTx(s, failAt)
  \/ \E s \in Slots : CreateOrderNotify(s)
  \/ \E s \in Slots : CreateOrderNotifyFails(s)
  \/ WalkInOrder
  \/ \E cred \in Credentials : ListOrders(cred)
  \/ \E cred \in Credentials, name \in CategoryNameInputs : CreateCategory(cred, name)
  \/ \E cred \in Credentials, id \in CategoryIds, name \in CategoryNameInputs : UpdateCategory(cred, id, name)
  \/ \E cred \in Credentials, id \in CategoryIds : DeleteCategory(cred, id)
  \/ \E cred \in Credentials : GetCategories(cred)
  \/ \E cred \in Credentials : GetMenu(cred)
  \/ \E cred \in Credentials, price \in PriceInputs : CreateMenuItem(cred, price)
  \/ \E cred \in Credentials, id \in NotificationIds : markRead(cred, id)
  \/ \E cred \in Credentials : markAllRead(cred)
  \/ \E cred \in Credentials : unreadCount(cred)
  \/ \E cred \in Credentials, id \in PaymentIds : deletePayment(cred, id)
  \/ \E cred \in Credentials, id \in OrderIds, status \in StatusInputs : UpdateStatus(cred, id, status)
  \/ \E cred \in Credentials, id \in OrderIds : GetOrder(cred, id)
  \/ \E cred \in Credentials, id \in OrderIds : DeleteOrder(cred, id)
  \/ \E s \in Slots, cred \in Credentials, id \in OrderIds : ConfirmPaymentBegin(s, cred, id)
  \/ \E s \in Slots : ConfirmPaymentWrite(s)
  \/ \E s \in Slots, cred \in Credentials, id \in OrderIds : CancelBegin(s, cred, id)
  \/ \E s \in Slots : CancelWrite(s)
  \/ \E cred \in Credentials, orderId \in OrderRefs, amountReceived \in AmountsReceived :
       createPayment(cred, orderId, amountReceived)
  \/ \E cred \in Credentials, id \in ItemIds, patch \in MenuPatches : UpdateMenuItem(cred, id, patch)
  \/ \E cred \in Credentials, id \in ItemIds : DeleteMenuItem(cred, id)
  \/ \E s \in Slots, email \in EmailInputs, password \in PasswordInputs : registerStaffBegin(s, email, password)
  \/ \E s \in Slots, mail \in MailOutcomes : registerStaffCreate(s, mail)
  \/ \E s \in Slots, email \in EmailInputs, password \in PasswordInputs : registerBegin(s, email, password)
  \/ \E s \in Slots, mail \in MailOutcomes : registerCreate(s, mail)
  \/ \E cred \in Credentials, id \in UserIds, mail \in MailOutcomes : approveStaff(cred, id, mail)
  \/ \E email \in EmailInputs, password \in PasswordInputs : login(email, password)
  \/ \E email \in EmailInputs, password \in PasswordInputs : loginStaff(email, password)
  \/ \E email \in EmailInputs, mail \in MailOutcomes : forgotPassword(email, mail)
  \/ \E s \in Slots, token \in ResetTokenInputs, newPassword \in PasswordInputs :
       resetPasswordBegin(s, token, newPassword)
  \/ \E s \in Slots : resetPasswordWrite(s)
  \/ Tick

Spec == Init /\ [][Next]_vars

(***************************************************************************)
(* Order placement on its own: concurrent POST /orders requests, with      *)
(* staff writing to the menu in between.                                   *)
(***************************************************************************)
OrderCallers == {TokenOf("s1"), TokenOf("st1")}
MenuCallers == {TokenOf("st1")}

NextOrders ==
  \/ \E s \in Slots, cred \in OrderCallers, items \in ItemLists, pickupType \in {"take_out", "delivery"} :
       CreateOrderBegin(s, cred, items, pickupType)
  \/ \E s \in Slots, failAt \in 0..MaxStatements : CreateOrderTx(s, failAt)
  \/ \E s \in Slots : CreateOrderNotify(s)
  \/ \E cred \in MenuCallers, id \in ItemIds, patch \in MenuPatches : UpdateMenuItem(cred, id, patch)
  \/ \E cred \in MenuCallers, id \in ItemIds : DeleteMenuItem(cred, id)

SpecOrders == Init /\ [][NextOrders]_vars

(***************************************************************************)
(* The life of one order: it is placed, then read, updated, cancelled,     *)
(* confirmed, paid and deleted by any caller in any order.                 *)
(***************************************************************************)
StatusCallers == {NoToken, TokenOf("s1"), TokenOf("s2"), TokenOf("st1")}

NextStatus ==
  \/ \E cred \in {TokenOf(u) : u \in Students} :
       nextOrderId = 1 /\ CreateOrderBegin(1, cred, <<[menuId |-> "B", quantity |-> 1]>>, "take_out")
  \/ CreateOrderTx(1, 0)
  \/ CreateOrderNotify(1)
  \/ \E cred \in StatusCallers, id \in OrderIds, status \in StatusInputs : UpdateStatus(cred, id, status)
  \/ \E cred \in StatusCallers, id \in OrderIds : GetOrder(cred, id)
  \/ \E cred \in StatusCallers, id \in OrderIds : DeleteOrder(cred, id)
  \/ \E cred \in StatusCallers, id \in OrderIds : ConfirmPaymentBegin(1, cred, id)
  \/ ConfirmPaymentWrite(1)
  \/ \E cred \in StatusCallers, id \in OrderIds : CancelBegin(1, cred, id)
  \/ CancelWrite(1)
  \/ \E cred \in StatusCallers, orderId \in OrderRefs, amountReceived \in AmountsReceived :
       createPayment(cred, orderId, amountReceived)

SpecStatus == Init /\ [][NextStatus]_vars

(***************************************************************************)
(* The accounts on their own: registration, approval and the logins; and   *)
(* the password reset as time passes.                                      *)
(***************************************************************************)
AdminCallers == {NoToken, TokenOf("s1"), TokenOf("ad1")}

NextAccounts ==
  \/ \E email \in EmailInputs, password \in PasswordInputs : registerStaffBegin(1, email, password)
  \/ registerStaffCreate(1, "sent")
  \/ \E cred \in AdminCallers, id \in UserIds : approveStaff(cred, id, "sent")
  \/ \E email \in EmailInputs, password \in PasswordInputs : login(email, password)
  \/ \E email \in EmailInputs, password \in PasswordInputs : loginStaff(email, password)

SpecAccounts == Init /\ [][NextAccounts]_vars

NextReset ==
  \/ registerStaffBegin(1, "staff@ustp.edu.ph", "secret")
  \/ registerStaffCreate(1, "sent")
  \/ \E email \in EmailInputs : forgotPassword(email, "sent")
  \/ \E s \in Slots, token \in ResetTokenInputs, newPassword \in {"", "secret"} :
       resetPasswordBegin(s, token, newPassword)
  \/ \E s \in Slots : resetPasswordWrite(s)
  \/ Tick

SpecReset == Init /\ [][NextReset]_vars

(***************************************************************************)
(* The access control layer in front of the protected routes: every kind   *)
(* of caller on routes with each allow-list, around one order.             *)
(***************************************************************************)
OneLine == <<[menuId |-> "B", quantity |-> 1]>>
OnePatch == [price |-> Undefined, availability |-> <<FALSE>>, stockLimit |-> Undefined]

NextGate ==
  \/ \E cred \in Credentials : nextOrderId = 1 /\ CreateOrderBegin(1, cred, OneLine, "take_out")
  \/ CreateOrderTx(1, 0)
  \/ CreateOrderNotify(1)
  \/ \E cred \in Credentials : UpdateStatus(cred, 1, "confirmed")
  \/ \E cred \in Credentials : GetOrder(cred, 1)
  \/ \E cred \in Credentials : DeleteOrder(cred, 1)
  \/ \E cred \in Credentials : UpdateMenuItem(cred, "A", OnePatch)
  \/ \E cred \in Credentials : approveStaff(cred, 1, "sent")

SpecGate == Init /\ [][NextGate]_vars

(***************************************************************************)
(* Order placement with a notification write that can fail.                *)
(***************************************************************************)
StudentCallers == {TokenOf(u) : u \in Students}

NotifyItemLists ==
  {<<>>, <<[menuId |-> "A", quantity |-> 1]>>,
   <<[menuId |-> "A", quantity |-> 1], [menuId |-> "B", quantity |-> 1]>>}

NextNotify ==
  \/ \E s \in Slots, cred \in StudentCallers, items \in NotifyItemLists :
       CreateOrderBegin(s, cred, items, "take_out")
  \/ \E s \in Slots, failAt \in 0..MaxStatements : CreateOrderTx(s, failAt)
  \/ \E s \in Slots : CreateOrderNotify(s)
  \/ \E s \in Slots : CreateOrderNotifyFails(s)

SpecNotify == Init /\ [][NextNotify]_vars

(***************************************************************************)
(* Status updates on orders without an owning user.                        *)
(***************************************************************************)
StaffCallers == {TokenOf(u) : u \in Staff \cup Admins}

NextWalkIn ==
  \/ WalkInOrder
  \/ \E cred \in StaffCallers \cup {TokenOf("s1")}, id \in OrderIds, status \in StatusInputs :
       UpdateStatus(cred, id, status)

SpecWalkIn == Init /\ [][NextWalkIn]_vars

(***************************************************************************)
(* One order of student s1 and the status updates made to it, whether or   *)
(* not the notification of its placement was written.                      *)
(***************************************************************************)
NextUpdates ==
  \/ nextOrderId = 1 /\ CreateOrderBegin(1, TokenOf("s1"), <<[menuId |-> "B", quantity |-> 1]>>, "take_out")
  \/ CreateOrderTx(1, 0)
  \/ CreateOrderNotify(1)
  \/ CreateOrderNotifyFails(1)
  \/ \E cred \in StaffCallers \cup {TokenOf("s1")}, id \in OrderIds, status \in StatusInputs :
       UpdateStatus(cred, id, status)

SpecUpdates == Init /\ [][NextUpdates]_vars

(***************************************************************************)
(* The cashier: orders of one line each are placed, paid with or without   *)
(* an order reference, and payments are deleted.                           *)
(***************************************************************************)
PaymentAmounts == {0, 100, 330, 500}      \* cents; 0: no amountReceived in the body
PaymentCallers == {NoToken, TokenOf("s1"), TokenOf("st1")}

NextPayments ==
  \/ \E i \in ItemIds : CreateOrderBegin(1, TokenOf("s1"), <<[menuId |-> i, quantity |-> 1]>>, "take_out")
  \/ CreateOrderTx(1, 0)
  \/ CreateOrderNotify(1)
  \/ \E cred \in PaymentCallers, orderId \in OrderRefs, amountReceived \in PaymentAmounts :
       createPayment(cred, orderId, amountReceived)
  \/ \E cred \in PaymentCallers, id \in PaymentIds : deletePayment(cred, id)

SpecPayments == Init /\ [][NextPayments]_vars

(***************************************************************************)
(* The notifications of two students' orders and of the status updates to  *)
(* them, read and marked read by their owners.                             *)
(***************************************************************************)
ReadCallers == {NoToken, TokenOf("s1"), TokenOf("s2")}

NextRead ==
  \/ \E cred \in StudentCallers :
       CreateOrderBegin(1, cred, <<[menuId |-> "B", quantity |-> 1]>>, "take_out")
  \/ CreateOrderTx(1, 0)
  \/ CreateOrderNotify(1)
  \/ \E id \in OrderIds : UpdateStatus(TokenOf("st1"), id, "ready")
  \/ \E cred \in ReadCallers, id \in NotificationIds : markRead(cred, id)
  \/ \E cred \in ReadCallers : markAllRead(cred)
  \/ \E cred \in ReadCallers : unreadCount(cred)

SpecRead == Init /\ [][NextRead]_vars

(***************************************************************************)
(* Registration of students and staff, two requests at a time, with the    *)
(* mails that the account routes send delivered or not.                    *)
(***************************************************************************)
NextRegister ==
  \/ \E s \in Slots, email \in EmailInputs : registerStaffBegin(s, email, "secret")
  \/ \E s \in Slots, mail \in MailOutcomes : registerStaffCreate(s, mail)
  \/ \E s \in Slots, email \in EmailInputs : registerBegin(s, email, "secret")
  \/ \E s \in Slots, mail \in MailOutcomes : registerCreate(s, mail)
  \/ \E cred \in AdminCallers, id \in UserIds, mail \in MailOutcomes : approveStaff(cred, id, mail)
  \/ \E email \in EmailInputs, mail \in MailOutcomes : forgotPassword(email, mail)

SpecRegister == Init /\ [][NextRegister]_vars

(***************************************************************************)
(* The menu and its categories, written and read by every kind of caller.  *)
(***************************************************************************)
MenuGateCallers == {NoToken, BadToken, TokenOf("s1"), TokenOf("st1"), TokenOf("ad1")}
MenuItemRefs == {"A", NewItemId}
MenuGatePatches == {p \in MenuPatches : p.price # Undefined \/ p.stockLimit = <<Stock(0)>>}

NextMenu ==
  \/ \E cred \in MenuGateCallers, name \in CategoryNameInputs : CreateCategory(cred, name)
  \/ \E cred \in MenuGateCallers, id \in CategoryIds, name \in CategoryNameInputs :
       UpdateCategory(cred, id, name)
  \/ \E cred \in MenuGateCallers, id \in CategoryIds : DeleteCategory(cred, id)
  \/ \E cred \in MenuGateCallers : GetCategories(cred)
  \/ \E cred \in MenuGateCallers : GetMenu(cred)
  \/ \E cred \in MenuGateCallers, price \in PriceInputs : CreateMenuItem(cred, price)
  \/ \E cred \in MenuGateCallers, id \in MenuItemRefs, patch \in MenuGatePatches :
       UpdateMenuItem(cred, id, patch)
  \/ \E cred \in MenuGateCallers, id \in MenuItemRefs : DeleteMenuItem(cred, id)

SpecMenu == Init /\ [][NextMenu]_vars

(***************************************************************************)
(* The orders of two students and of the point of sale, listed by every    *)
(* kind of caller.                                                         *)
(***************************************************************************)
ListCallers == {NoToken, TokenOf("s1"), TokenOf("s2"), TokenOf("st1"), TokenOf("ad1")}

NextList ==
  \/ \E cred \in StudentCallers :
       CreateOrderBegin(1, cred, <<[menuId |-> "B", quantity |-> 1]>>, "take_out")
  \/ CreateOrderTx(1, 0)
  \/ CreateOrderNotify(1)
  \/ WalkInOrder
  \/ \E cred \in ListCallers : ListOrders(cred)

SpecList == Init /\ [][NextList]_vars

(***************************************************************************)
(* The staff login on its own, over every table of two users: each of any  *)
(* role, approved or not.                                                  *)
(***************************************************************************)
Roles == {"student", "staff", "admin"}
UserTables ==
  {(1 :> [SeededAdmin EXCEPT !.role = r1, !.approved = a1]) @@
   (2 :> [email |-> "staff@ustp.edu.ph", role |-> r2, approved |-> a2, password |-> "secret",
          fullName |-> "New User",
          resetPasswordToken |-> NoResetToken, resetPasswordExpires |-> NoExpiry]) :
     r1 \in Roles, a1 \in BOOLEAN, r2 \in Roles, a2 \in BOOLEAN}

InitStaffLogin == InitStore /\ users \in UserTables

NextStaffLogin == \E email \in EmailInputs, password \in PasswordInputs : loginStaff(email, password)

SpecStaffLogin == InitStaffLogin /\ [][NextStaffLogin]_vars

(***************************************************************************)
(* The profile routes, called with no token, a bad one, and every token a  *)
(* login has signed.                                                       *)
(***************************************************************************)
ProfileCallers == {NoToken, BadToken} \cup {Bearer(t) : t \in signed}

NextProfile ==
  \/ \E email \in EmailInputs, password \in PasswordInputs : registerBegin(1, email, password)
  \/ registerCreate(1, "sent")
  \/ \E email \in EmailInputs, password \in PasswordInputs : login(email, password)
  \/ \E email \in EmailInputs, password \in PasswordInputs : loginStaff(email, password)
  \/ \E cred \in ProfileCallers : getCurrentUser(cred)
  \/ \E cred \in ProfileCallers, fullName \in FullNameInputs : updateUser(cred, fullName)

SpecProfile == Init /\ [][NextProfile]_vars

(***************************************************************************)
(* Properties of order placement (SpecOrders).                             *)
(***************************************************************************)
\* the exact sum, in cents, of price read * quantity over the first n lines
RECURSIVE SumCents(_, _, _)
SumCents(items, menuItems, n) ==
  IF n = 0 THEN 0
  ELSE SumCents(items, menuItems, n - 1) + menuItems[items[n].menuId].price * items[n].quantity

\* the quantity ordered of item i by the first n lines
RECURSIVE QuantityOf(_, _, _)
QuantityOf(items, i, n) ==
  IF n = 0 THEN 0
  ELSE QuantityOf(items, i, n - 1) + (IF items[n].menuId = i THEN items[n].quantity ELSE 0)

\* slot s's request is at its transaction and this step runs it
TxStep(s) == inflight[s].op = "create" /\ inflight[s].pc = "tx" /\ inflight'[s] # inflight[s]
TxCommitted(s) == TxStep(s) /\ inflight'[s].op = "create" /\ inflight'[s].pc = "notify"

\* C1: every POST /orders that answers 200 has stored a totalPrice equal to the
\* exact decimal sum, over the request's lines, of the unit price the request read
\* for the line's item times the line's quantity.
C1_TotalIsSumOfLines ==
  [][\A s \in Slots :
       inflight[s].op = "create" /\ inflight[s].pc = "notify" /\ inflight'[s] = Idle
       /\ resp'.code = 200
       => orders'[resp'.order].totalPrice
            = CentsDecimal(SumCents(inflight[s].items, inflight[s].menuItems, Len(inflight[s].items)))]_vars

\* C2: in every reachable state every finite stock limit is at least 0, whatever
\* the interleaving of the requests and whatever lines a request lists.
C2_StockNeverNegative ==
  \A i \in DOMAIN menu : menu[i].stockLimit # NullStock => menu[i].stockLimit[1] >= 0

\* C3: when an order is committed and the menu rows of its items are still as the
\* request read them (no interleaving), every item ends with its stock before the
\* order minus the quantity ordered of it if its limit is finite and with a null
\* limit if its limit is null; items not ordered, and all other fields, are unchanged.
C3_StockAfterOrder ==
  [][\A s \in Slots :
       TxCommitted(s) /\ inflight[s].menuItems = findManyMenuItems(inflight[s].items)
       => /\ DOMAIN menu' = DOMAIN menu
          /\ \A i \in DOMAIN menu :
               menu'[i] = [menu[i] EXCEPT !.stockLimit =
                             IF @ = NullStock THEN NullStock
                             ELSE Stock(@[1] - QuantityOf(inflight[s].items, i, Len(inflight[s].items)))]]_vars

\* an order of two units of the finite-stock item A has been committed on the
\* untouched menu and A's stock went from 2 to 0, B's limit still null
C3_Witness ==
  /\ menuWrites = 0 /\ nextOrderId = 2
  /\ \E s \in Slots : /\ inflight[s].op = "create" /\ inflight[s].pc = "notify"
                      /\ inflight[s].items = <<[menuId |-> "A", quantity |-> 2]>>
  /\ menu["A"].stockLimit = Stock(0) /\ menu["B"].stockLimit = NullStock

\* the rows of a committed order: the Order row, one OrderItem row and one
\* InventoryLog row per line, and the stock decrement of every line whose item had
\* a finite limit when read
AllCommitted(s) ==
  LET rq == inflight[s]
      id == nextOrderId
      n  == Len(rq.items)
  IN /\ nextOrderId' = id + 1
     /\ DOMAIN orders' = DOMAIN orders \cup {id}
     /\ \A o \in DOMAIN orders : orders'[o] = orders[o]
     /\ orders'[id].userId = rq.userId /\ orders'[id].status = "pending"
     /\ Len(orderItems') = Len(orderItems) + n
     /\ SubSeq(orderItems', 1, Len(orderItems)) = orderItems
     /\ \A k \in 1..n :
          LET row == orderItems'[Len(orderItems) + k]
          IN row.orderId = id /\ row.itemId = rq.items[k].menuId /\ row.quantity = rq.items[k].quantity
     /\ Len(inventoryLogs') = Len(inventoryLogs) + n
     /\ SubSeq(inventoryLogs', 1, Len(inventoryLogs)) = inventoryLogs
     /\ \A k \in 1..n :
          LET row == inventoryLogs'[Len(inventoryLogs) + k]
          IN row.note = id /\ row.itemId = rq.items[k].menuId /\ row.quantity = rq.items[k].quantity
     /\ DOMAIN menu' = DOMAIN menu
     /\ \A i \in DOMAIN menu :
          menu'[i] = [menu[i] EXCEPT !.stockLimit =
                        IF @ = NullStock \/ i \notin DOMAIN rq.menuItems THEN @
                        ELSE IF rq.menuItems[i].stockLimit = NullStock THEN @
                        ELSE Stock(@[1] - QuantityOf(rq.items, i, n))]

\* every Order row has its OrderItem rows and as many InventoryLog rows, and no
\* OrderItem or InventoryLog row belongs to an order that was not created
RowsTogether ==
  /\ DOMAIN orders = 1..(nextOrderId - 1)
  /\ \A id \in DOMAIN orders :
       LET rows == {k \in 1..Len(orderItems) : orderItems[k].orderId = id}
           logs == {k \in 1..Len(inventoryLogs) : inventoryLogs[k].note = id}
       IN rows # {} /\ Cardinality(rows) = Cardinality(logs)
  /\ \A k \in 1..Len(orderItems) : orderItems[k].orderId \in DOMAIN orders
  /\ \A k \in 1..Len(inventoryLogs) : inventoryLogs[k].note \in DOMAIN orders

\* C4: order creation is all-or-nothing.  The transaction of a POST /orders either
\* commits the Order row, all its OrderItem rows, all its InventoryLog rows and the
\* stock decrements of its finite-stock lines together, or, when any statement in
\* it fails, leaves the store exactly as it was and answers 500; and in every
\* reachable state the rows of an order are all there or none is.
C4_AllOrNothing ==
  /\ []RowsTogether
  /\ [][\A s \in Slots :
          TxStep(s) => \/ TxCommitted(s) /\ AllCommitted(s) /\ UNCHANGED <<notifications, payments, resp>>
                       \/ inflight'[s] = Idle /\ resp'.code = 500 /\ UNCHANGED store]_vars

\* a transaction has failed after an earlier order was committed: the store holds
\* the first order only
C4_Witness ==
  /\ resp.op = "createOrder" /\ resp.code = 500
  /\ nextOrderId = 2 /\ DOMAIN orders = {1}
  /\ \A s \in Slots : inflight[s] = Idle

\* what the request must be refused for, read off the menu at the time of the request
BadRequest(items, pickupType) ==
  \/ Len(items) = 0
  \/ pickupType \notin PickupType
  \/ \E k \in 1..Len(items) :
       \/ items[k].menuId \notin DOMAIN menu
       \/ ~menu[items[k].menuId].availability
       \/ /\ menu[items[k].menuId].stockLimit # NullStock
          /\ menu[items[k].menuId].stockLimit[1] < items[k].quantity

\* C5: a student's POST /orders whose item list is empty, whose pickup type is not
\* in the enum, or one of whose lines names an unknown item, an item that is not
\* available or an item whose finite stock is less than the line's quantity, is
\* answered 400 and leaves orders, order items, stock, logs and notifications as
\* they were.
C5_BadRequestRefused ==
  [][\A items \in ItemLists, pickupType \in PickupInputs :
       BadRequest(items, pickupType)
       => \A s \in Slots, cred \in StudentCallers :
            CreateOrderBegin(s, cred, items, pickupType)
            => resp'.op = "createOrder" /\ resp'.code = 400 /\ UNCHANGED <<store, inflight>>]_vars

\* a request was refused for insufficient stock after an order had taken stock
C5_Witness ==
  /\ resp.op = "createOrder" /\ resp.code = 400 /\ resp.error = "has insufficient stock"
  /\ nextOrderId = 2

(***************************************************************************)
(* Properties of the life of an order (SpecStatus).                        *)
(***************************************************************************)
AllowedTransitions ==
  {<<"pending", "confirmed">>, <<"pending", "rejected">>, <<"confirmed", "preparing">>,
   <<"preparing", "ready">>, <<"ready", "picked_up">>}

StatusChanged(id) ==
  id \in DOMAIN orders /\ id \in DOMAIN orders' /\ orders'[id].status # orders[id].status

\* C6: every change of an order's status, by any operation, is pending -> confirmed,
\* pending -> rejected, confirmed -> preparing, preparing -> ready or
\* ready -> picked_up.
C6_OnlyAllowedTransitions ==
  [][\A id \in OrderIds :
       StatusChanged(id) => <<orders[id].status, orders'[id].status>> \in AllowedTransitions]_vars

\* C7: rejected and picked_up are terminal: no operation changes the status of an
\* order that has one of them.
C7_TerminalStatuses ==
  [][\A id \in OrderIds :
       id \in DOMAIN orders /\ orders[id].status \in {"rejected", "picked_up"}
       => ~StatusChanged(id)]_vars

\* C8: every change of an order's status is made by the request of a staff or admin
\* caller, except the cancellation of an order by the student who owns it.
C8_StatusChangedByStaff ==
  [][\A id \in OrderIds :
       StatusChanged(id)
       => \/ resp'.role \in {"staff", "admin"}
          \/ \E s \in Slots : /\ inflight[s].op = "cancel" /\ inflight'[s] = Idle
                              /\ inflight[s].id = id
                              /\ inflight[s].auth.role = "student"
                              /\ inflight[s].auth.user = orders[id].userId
                              /\ orders'[id].status = "rejected"]_vars

\* C9: a cancel by the owning student that answers 200 is on an order whose status
\* is pending and sets it to rejected; a cancel by the owning student on an order
\* with any other status is answered 400 and leaves the order unchanged.
C9_CancelOnlyPending ==
  [][/\ \A s \in Slots :
          inflight[s].op = "cancel" /\ inflight'[s] = Idle /\ resp'.code = 200
          => orders[inflight[s].id].status = "pending" /\ orders'[inflight[s].id].status = "rejected"
     /\ \A s \in Slots, cred \in StudentCallers, id \in OrderIds :
          /\ id \in DOMAIN orders /\ orders[id].userId = cred.userId
          /\ orders[id].status # "pending"
          /\ CancelBegin(s, cred, id)
          => resp'.op = "cancel" /\ resp'.code = 400 /\ UNCHANGED <<store, inflight>>]_vars

\* C10: a student's GET /orders/:id, PATCH /orders/:id/cancel and
\* PATCH /orders/:id/confirm-payment on an order of another user are each answered
\* 403 with no order in the response, and leave the store unchanged.
C10_NonOwnerForbidden ==
  [][\A s \in Slots, cred \in StudentCallers, id \in OrderIds :
       /\ id \in DOMAIN orders /\ orders[id].userId # cred.userId
       /\ GetOrder(cred, id) \/ CancelBegin(s, cred, id) \/ ConfirmPaymentBegin(s, cred, id)
       => resp'.code = 403 /\ resp'.order = NoOrder /\ UNCHANGED <<store, inflight>>]_vars

\* a student has asked for the order of another student and was answered 403
C10_Witness ==
  /\ resp.op = "getOrder" /\ resp.role = "student" /\ resp.code = 403 /\ resp.order = NoOrder
  /\ 1 \in DOMAIN orders

\* C11: a confirm-payment by the owning student that answers 200 is on an order
\* whose status is ready, and sets paymentConfirmed without changing status or
\* paymentStatus; a confirm-payment by the owning student on an order with any
\* other status is answered 400 and leaves the order unchanged.
C11_ConfirmOnlyReady ==
  [][/\ \A s \in Slots :
          inflight[s].op = "confirm" /\ inflight'[s] = Idle /\ resp'.code = 200
          => /\ orders[inflight[s].id].status = "ready"
             /\ orders'[inflight[s].id] = [orders[inflight[s].id] EXCEPT !.paymentConfirmed = TRUE]
     /\ \A s \in Slots, cred \in StudentCallers, id \in OrderIds :
          /\ id \in DOMAIN orders /\ orders[id].userId = cred.userId
          /\ orders[id].status # "ready"
          /\ ConfirmPaymentBegin(s, cred, id)
          => resp'.op = "confirmPayment" /\ resp'.code = 400 /\ UNCHANGED <<store, inflight>>]_vars

(***************************************************************************)
(* Properties of the accounts (SpecAccounts, SpecReset).                   *)
(***************************************************************************)
\* C12: a staff account is created with approved = false, and no token is signed
\* for a user of role staff whose approved is false, whichever login is used.
C12_NoTokenBeforeApproval ==
  [][/\ \A u \in DOMAIN users' \ DOMAIN users : users'[u].role = "staff" => ~users'[u].approved
     /\ \A t \in signed' \ signed :
          users[t.userId].role = "staff" => users[t.userId].approved]_vars

\* a redemption of reset token `token` for user u is written in this step
Redeemed(s) == inflight[s].op = "reset" /\ inflight'[s] = Idle

\* C13: a reset token is redeemed (the password written) only while it equals the
\* user's stored token, and the redemption clears the stored token and expiry; an
\* attempt with a token that no user stores unexpired is answered 400 'Invalid or
\* expired token' and changes no user, so no attempt after a redemption changes
\* the password again.
C13_ResetTokenSingleUse ==
  [][/\ \A s \in Slots :
          Redeemed(s)
          => /\ users[inflight[s].user].resetPasswordToken = inflight[s].token
             /\ users'[inflight[s].user].resetPasswordToken = NoResetToken
             /\ users'[inflight[s].user].resetPasswordExpires = NoExpiry
     /\ \A s \in Slots, token \in ResetTokenInputs \ {NoResetToken} :
          /\ ~\E u \in DOMAIN users : /\ users[u].resetPasswordToken = token
                                      /\ clock < users[u].resetPasswordExpires
          /\ resetPasswordBegin(s, token, "secret")
          => /\ resp'.code = 400 /\ resp'.error = "Invalid or expired token"
             /\ UNCHANGED <<users, inflight>>]_vars

(***************************************************************************)
(* Properties of the access control layer (SpecGate).                      *)
(***************************************************************************)
Unauthenticated == {NoToken, BadToken}

\* a request with credentials cred to one of the protected routes
ProtectedRequest(cred) ==
  \/ CreateOrderBegin(1, cred, OneLine, "take_out")
  \/ UpdateStatus(cred, 1, "confirmed")
  \/ GetOrder(cred, 1)
  \/ DeleteOrder(cred, 1)
  \/ UpdateMenuItem(cred, "A", OnePatch)
  \/ approveStaff(cred, 1, "sent")

\* C14: a request to a protected route that carries no token, or a token that fails
\* verification, is answered 401, and changes no stored state and starts no handler.
C14_UnauthenticatedIs401 ==
  [][\A cred \in Unauthenticated :
       ProtectedRequest(cred)
       => resp'.code = 401 /\ UNCHANGED <<store, menuWrites, inflight, authVars>>]_vars

\* the allow-list of each role-gated route, and a request to it
GatedRoutes == {"createOrder", "updateStatus", "deleteOrder", "updateMenuItem", "approveStaff"}
AllowList(route) ==
  IF route = "createOrder" THEN {"student"}
  ELSE IF route = "updateMenuItem" THEN {"staff"}
  ELSE IF route = "approveStaff" THEN {"admin"}
  ELSE {"staff", "admin"}
GatedRequest(route, cred) ==
  IF route = "createOrder" THEN CreateOrderBegin(1, cred, OneLine, "take_out")
  ELSE IF route = "updateStatus" THEN UpdateStatus(cred, 1, "confirmed")
  ELSE IF route = "deleteOrder" THEN DeleteOrder(cred, 1)
  ELSE IF route = "updateMenuItem" THEN UpdateMenuItem(cred, "A", OnePatch)
  ELSE approveStaff(cred, 1, "sent")

\* C15: the role gate lets a request through exactly when the request has an
\* identity whose role is in the allow-list; it answers 403 when the role is not in
\* the list and 401 when there is no identity; and a request it stops on a gated
\* route has no side effect, while one it lets through reaches the handler.
C15_RoleGate ==
  /\ [](\A roles \in SUBSET {"student", "staff", "admin"}, u \in Users :
          /\ RoleGate(roles, u, RoleOf(u)) = (IF RoleOf(u) \in roles THEN 0 ELSE 403)
          /\ RoleGate(roles, Null, "none") = 401)
  /\ [][\A route \in GatedRoutes, u \in Users :
          GatedRequest(route, TokenOf(u))
          => IF RoleOf(u) \in AllowList(route)
               THEN \/ inflight' # inflight
                    \/ resp'.op = route /\ resp'.error # "Forbidden: insufficient role"
               ELSE /\ resp'.op = route /\ resp'.code = 403
                    /\ resp'.error = "Forbidden: insufficient role"
                    /\ UNCHANGED <<store, menuWrites, inflight, authVars>>]_vars

\* a student's request to a staff route was stopped by the gate, with the order in place
C15_Witness ==
  /\ resp.op = "updateStatus" /\ resp.role = "student" /\ resp.code = 403
  /\ resp.error = "Forbidden: insufficient role"
  /\ 1 \in DOMAIN orders

(***************************************************************************)
(* Properties of the rows written for an order (SpecNotify, SpecOrders).   *)
(***************************************************************************)
\* slot s's request is at its notification write and this step ends the request
NotifyStep(s) == inflight[s].op = "create" /\ inflight[s].pc = "notify" /\ inflight'[s] = Idle

\* C16: a POST /orders that answers 200 has written, after its transaction
\* committed, exactly one Notification: unread, for the ordering user, tied to the
\* new order; a POST /orders that does not answer 200 writes none; a failure of the
\* notification write leaves the committed order, its order items, the stock and
\* the inventory log rows as the transaction wrote them; and no order ever has two
\* notifications.
C16_OneNotificationPerOrder ==
  /\ [](\A id \in OrderIds :
          Cardinality({n \in 1..Len(notifications) : notifications[n].orderId = id}) <= 1)
  /\ [][\A s \in Slots :
          /\ inflight[s].op = "create" /\ inflight'[s] # inflight[s] /\ ~NotifyStep(s)
             => UNCHANGED notifications
          /\ NotifyStep(s) /\ resp'.code = 200
             => /\ inflight[s].order \in DOMAIN orders /\ resp'.order = inflight[s].order
                /\ notifications' = Append(notifications,
                     [userId |-> inflight[s].auth.user, orderId |-> inflight[s].order,
                      message |-> <<"placed">>, status |-> "unread"])
          /\ NotifyStep(s) /\ resp'.code # 200
             => /\ UNCHANGED store
                /\ inflight[s].order \in DOMAIN orders']_vars

\* a request ended with a failed notification write: its order is committed, with
\* its rows and the stock it took, and has no notification
C16_Witness ==
  /\ resp.op = "createOrder" /\ resp.code = 500
  /\ DOMAIN orders = {1} /\ notifications = <<>>
  /\ Len(orderItems) >= 1 /\ Len(inventoryLogs) >= 1 /\ menu["A"].stockLimit = Stock(1)
  /\ \A s \in Slots : inflight[s] = Idle

\* C17: a committed order creation appends exactly one InventoryLog row per line of
\* the request, in order, each with changeType deduct, no staff, the line's
\* quantity and a note naming the new order, whether the line's item has a finite
\* or a null stock limit; and no step ever changes or removes an existing
\* InventoryLog row.
C17_OneLogPerLine ==
  [][/\ \A s \in Slots :
          TxCommitted(s)
          => inventoryLogs' = inventoryLogs \o
               [k \in 1..Len(inflight[s].items) |->
                  [staffId |-> Null, itemId |-> inflight[s].items[k].menuId, changeType |-> "deduct",
                   quantity |-> inflight[s].items[k].quantity, note |-> nextOrderId]]
     /\ Len(inventoryLogs') >= Len(inventoryLogs)
     /\ SubSeq(inventoryLogs', 1, Len(inventoryLogs)) = inventoryLogs]_vars

\* an order with a line on the unlimited item B is committed and B's line is logged
C17_Witness ==
  /\ nextOrderId = 2
  /\ \E s \in Slots : /\ inflight[s].op = "create" /\ inflight[s].pc = "notify"
                      /\ Len(inflight[s].items) = 2
  /\ Len(inventoryLogs) = 2
  /\ inventoryLogs[2].itemId = "B" /\ inventoryLogs[2].staffId = Null

(***************************************************************************)
(* Properties of PUT /orders/:id/status (SpecStatus, SpecWalkIn).          *)
(***************************************************************************)
\* C18: a staff or admin status update that answers 200, on an order with an
\* owning user, sets the status and appends exactly one Notification: unread, for
\* the order's owner, tied to the order, with a message naming the new status.
C18_UpdateNotifiesOwner ==
  [][\A cred \in StaffCallers, id \in OrderIds, status \in OrderStatus :
       /\ id \in DOMAIN orders /\ orders[id].userId # Null
       /\ UpdateStatus(cred, id, status)
       => /\ resp'.code = 200 /\ orders'[id].status = status
          /\ Len(notifications') = Len(notifications) + 1
          /\ SubSeq(notifications', 1, Len(notifications)) = notifications
          /\ LET row == notifications'[Len(notifications')]
             IN /\ row.userId = orders[id].userId /\ row.orderId = id
                /\ row.status = "unread" /\ row.message = <<"status", status>>]_vars

\* staff has moved student s1's order to ready and s1 has the notification of it
C18_Witness ==
  /\ resp.op = "updateStatus" /\ resp.code = 200
  /\ 1 \in DOMAIN orders /\ orders[1].userId = "s1" /\ orders[1].status = "ready"
  /\ Len(notifications) = 2 /\ notifications[2].userId = "s1"
  /\ notifications[2].message = <<"status", "ready">>

\* C19: a staff or admin status update on an order with no owning user succeeds: the
\* status is updated, the caller is answered 200, and no Notification is created.
C19_WalkInUpdateSucceeds ==
  [][\A cred \in StaffCallers, id \in OrderIds, status \in OrderStatus :
       /\ id \in DOMAIN orders /\ orders[id].userId = Null
       /\ UpdateStatus(cred, id, status)
       => /\ orders'[id].status = status
          /\ resp'.code = 200
          /\ UNCHANGED notifications]_vars

\* C20: a staff or admin PUT /orders/:id/status is answered 404 when no order has
\* the id and 400 when the status is missing or not in the enum, and in both cases
\* no order and no notification is created or changed.
C20_UpdateStatusErrors ==
  [][\A cred \in StaffCallers, id \in OrderIds, status \in StatusInputs :
       UpdateStatus(cred, id, status)
       => /\ status \notin OrderStatus
             => resp'.code = 400 /\ UNCHANGED <<orders, notifications>>
          /\ status \in OrderStatus /\ id \notin DOMAIN orders
             => resp'.code = 404 /\ UNCHANGED <<orders, notifications>>]_vars

\* C21: a staff or admin status update to any value of the status enum, on an
\* order with an owning user, answers 200 and sets that status whatever the order's
\* current status is, also when the order is already rejected.
C21_AnyDestinationFromAnyStatus ==
  [][\A cred \in StaffCallers, id \in OrderIds, current \in OrderStatus, status \in OrderStatus :
       /\ id \in DOMAIN orders /\ orders[id].userId # Null /\ orders[id].status = current
       /\ UpdateStatus(cred, id, status)
       => resp'.code = 200 /\ resp'.order = id /\ orders'[id].status = status]_vars

\* the order was rejected and a later update has moved it to preparing
C21_Witness ==
  /\ resp.op = "updateStatus" /\ resp.code = 200
  /\ 1 \in DOMAIN orders /\ orders[1].status = "preparing"
  /\ Len(notifications) = 2
  /\ notifications[1].message = <<"status", "rejected">>
  /\ notifications[2].message = <<"status", "preparing">>

(***************************************************************************)
(* Properties of DELETE /orders/:id (SpecStatus).                          *)
(***************************************************************************)
\* C22: DELETE /orders/:id by staff or admin on an existing order removes the order
\* and all of its order items, and leaves every menu item's stock limit and every
\* inventory log row unchanged.
C22_DeleteRemovesOrderAndItems ==
  [][\A cred \in StaffCallers, id \in OrderIds :
       /\ id \in DOMAIN orders
       /\ DeleteOrder(cred, id)
       => /\ id \notin DOMAIN orders'
          /\ \A n \in 1..Len(orderItems') : orderItems'[n].orderId # id
          /\ UNCHANGED <<menu, inventoryLogs>>]_vars

(***************************************************************************)
(* Properties of the payments (SpecPayments).                              *)
(***************************************************************************)
\* a POST /payments of an authenticated caller that names an amount
PaymentRequest(cred, orderId, amountReceived) ==
  /\ authenticateToken(cred).next /\ amountReceived # 0
  /\ createPayment(cred, orderId, amountReceived)

\* C23: every stored Payment has change = amountReceived - amountDue; a payment is
\* stored with amountDue equal to the linked order's stored totalPrice when an
\* orderId was supplied and equal to amountReceived when none was.
C23_ChangeIsReceivedMinusDue ==
  /\ [](\A n \in 1..Len(payments) :
          LET row == payments[n]
          IN row.amountReceived.exact /\ row.amountDue.exact
               => row.change = CentsDecimal(row.amountReceived.c - row.amountDue.c))
  /\ [][\A cred \in PaymentCallers, orderId \in OrderRefs, amountReceived \in PaymentAmounts :
          /\ PaymentRequest(cred, orderId, amountReceived)
          /\ Len(payments') = Len(payments) + 1
          => LET row == payments'[Len(payments')]
             IN row.amountDue = IF orderId # NoOrder THEN orders[orderId].totalPrice
                                                      ELSE row.amountReceived]_vars

\* C24: a POST /payments with an orderId that answers 201 leaves the linked order
\* with paymentStatus paid and status picked_up; when the orderId names no order the
\* answer is 404 and no payment and no order change is stored.
C24_PaidOrderIsPickedUp ==
  [][\A cred \in PaymentCallers, orderId \in OrderIds, amountReceived \in PaymentAmounts :
       PaymentRequest(cred, orderId, amountReceived)
       => IF orderId \in DOMAIN orders
            THEN resp'.code = 201
                   => /\ orders'[orderId].paymentStatus = "paid"
                      /\ orders'[orderId].status = "picked_up"
                      /\ Len(payments') = Len(payments) + 1
                      /\ payments'[Len(payments')].orderId = orderId
            ELSE resp'.code = 404 /\ UNCHANGED <<payments, orders>>]_vars

\* an order has been paid and is picked up, and its payment row is stored
C24_Witness ==
  /\ resp.op = "createPayment" /\ resp.code = 201
  /\ 1 \in DOMAIN orders /\ orders[1].paymentStatus = "paid" /\ orders[1].status = "picked_up"
  /\ Len(payments) = 1 /\ payments[1].orderId = 1

\* C25: a payment whose amountReceived is less than the linked order's total is
\* accepted: the payment row is stored with a negative change and the order is
\* marked paid and picked_up.
C25_UnderpaymentAccepted ==
  [][\A cred \in PaymentCallers, orderId \in OrderIds, amountReceived \in PaymentAmounts :
       /\ PaymentRequest(cred, orderId, amountReceived)
       /\ orderId \in DOMAIN orders
       /\ orders[orderId].totalPrice.exact /\ amountReceived < orders[orderId].totalPrice.c
       => /\ resp'.code = 201
          /\ Len(payments') = Len(payments) + 1
          /\ NumberOfDecimal(payments'[Len(payments')].change).s = -1
          /\ orders'[orderId].paymentStatus = "paid"
          /\ orders'[orderId].status = "picked_up"]_vars

\* 1.00 was received for the order of 2.20: the payment is stored with a negative
\* change and the order is paid and picked up
C25_Witness ==
  /\ resp.op = "createPayment" /\ resp.code = 201
  /\ Len(payments) = 1 /\ payments[1].orderId = 1
  /\ payments[1].amountReceived = CentsDecimal(100) /\ payments[1].amountDue = CentsDecimal(220)
  /\ NumberOfDecimal(payments[1].change).s = -1
  /\ orders[1].paymentStatus = "paid" /\ orders[1].status = "picked_up"

\* C26: deleting a payment removes only that payment row: every order, the linked
\* one included, keeps its paymentStatus, its status and every other field.
C26_DeletePaymentKeepsOrder ==
  [][\A cred \in PaymentCallers, id \in PaymentIds :
       /\ authenticateToken(cred).next /\ id \in DOMAIN payments
       /\ deletePayment(cred, id)
       => /\ resp'.code = 200
          /\ payments' = SubSeq(payments, 1, id - 1) \o SubSeq(payments, id + 1, Len(payments))
          /\ UNCHANGED <<orders, orderItems, menu, inventoryLogs, notifications>>]_vars

\* the payment of order 1 has been deleted and the order is still paid and picked up
C26_Witness ==
  /\ resp.op = "deletePayment" /\ resp.code = 200
  /\ payments = <<>>
  /\ 1 \in DOMAIN orders /\ orders[1].paymentStatus = "paid" /\ orders[1].status = "picked_up"

(***************************************************************************)
(* Properties of the notification routes (SpecRead).                       *)
(***************************************************************************)
\* C27: mark-one-read and mark-all-read are idempotent. Each answers 200 and leaves
\* the notifications in a state that a second application does not change, and on
\* notifications it has already been applied to it answers 200 and changes nothing;
\* after mark-all-read the caller's unread count is 0, a repeated mark-all-read
\* keeps it 0, and unread-count reports the number of the caller's unread rows.
C27_MarkReadIdempotent ==
  [][/\ \A cred \in StudentCallers, id \in NotificationIds :
          id \in DOMAIN notifications /\ markRead(cred, id)
          => /\ resp'.code = 200
             /\ notifications'[id].status = "read"
             /\ MarkedRead(notifications', id) = notifications'
             /\ notifications[id].status = "read" => UNCHANGED notifications
     /\ \A cred \in StudentCallers :
          markAllRead(cred)
          => /\ resp'.code = 200
             /\ UnreadCount(notifications', cred.userId) = 0
             /\ MarkedAllRead(notifications', cred.userId) = notifications'
             /\ UnreadCount(notifications, cred.userId) = 0 => UNCHANGED notifications
     /\ \A cred \in StudentCallers :
          unreadCount(cred)
          => /\ resp'.code = 200
             /\ resp'.unread = UnreadCount(notifications, cred.userId)]_vars

\* a student's two notifications have both been marked read and unread-count
\* has answered 0
C27_Witness ==
  /\ resp.op = "unreadCount" /\ resp.code = 200 /\ resp.unread = 0
  /\ Len(notifications) = 2
  /\ \A n \in 1..2 : notifications[n].userId = "s1" /\ notifications[n].status = "read"

(***************************************************************************)
(* Properties of registration and of the mails (SpecRegister).             *)
(***************************************************************************)
\* C28: a failure of email delivery never surfaces to the caller: each step of
\* student registration, staff registration, staff approval and forgot-password
\* taken with a failing mail is the step taken with a delivered mail, with the
\* same response and the same stored state.
C28_MailFailureNotSurfaced ==
  [][/\ \A s \in Slots : registerCreate(s, "failed") => registerCreate(s, "sent")
     /\ \A s \in Slots : registerStaffCreate(s, "failed") => registerStaffCreate(s, "sent")
     /\ \A cred \in AdminCallers, id \in UserIds :
          approveStaff(cred, id, "failed") => approveStaff(cred, id, "sent")
     /\ \A email \in EmailInputs :
          forgotPassword(email, "failed") => forgotPassword(email, "sent")]_vars

\* the user of the email a suspended registration is about to insert exists
EmailTaken(s) ==
  inflight[s].op \in {"register", "registerStaff"} /\ findUserByEmail(inflight[s].email) # {}

\* C30: a registration, of a student or of staff, with an email that already
\* belongs to a user is answered 400 and creates no user, whether the email is
\* found taken by the handler's lookup or by its insert; and no two users ever
\* have the same email.
C30_DuplicateEmailIs400 ==
  /\ [](\A u, v \in DOMAIN users : u # v => users[u].email # users[v].email)
  /\ [][/\ \A s \in Slots, email \in Emails :
             /\ findUserByEmail(email) # {}
             /\ registerBegin(s, email, "secret") \/ registerStaffBegin(s, email, "secret")
             => resp'.code = 400 /\ UNCHANGED <<users, inflight>>
        /\ \A s \in Slots, mail \in MailOutcomes :
             /\ EmailTaken(s)
             /\ registerCreate(s, mail) \/ registerStaffCreate(s, mail)
             => resp'.code = 400 /\ UNCHANGED users]_vars

(***************************************************************************)
(* Properties of the menu routes (SpecMenu).                               *)
(***************************************************************************)
\* a create, update or delete of a category or of a menu item sent with cred
MenuWrite(cred) ==
  \/ \E name \in CategoryNameInputs : CreateCategory(cred, name)
  \/ \E id \in CategoryIds, name \in CategoryNameInputs : UpdateCategory(cred, id, name)
  \/ \E id \in CategoryIds : DeleteCategory(cred, id)
  \/ \E price \in PriceInputs : CreateMenuItem(cred, price)
  \/ \E id \in MenuItemRefs, patch \in MenuGatePatches : UpdateMenuItem(cred, id, patch)
  \/ \E id \in MenuItemRefs : DeleteMenuItem(cred, id)

\* C29: a create, update or delete of a menu category or menu item changes the
\* categories or the menu only when the caller's role is staff; without a token it
\* is answered 401, with an invalid token or another role 403, and all categories
\* and items stay as they were; a staff caller passes the gate; and the reads of
\* the menu and of the categories answer 200 whatever the request carries.
C29_MenuWritesStaffOnly ==
  [][/\ \A cred \in MenuGateCallers \ {TokenOf("st1")} :
          MenuWrite(cred)
          => /\ resp'.code = IF cred.kind = "none" THEN 401 ELSE 403
             /\ UNCHANGED <<categories, menu>>
     /\ MenuWrite(TokenOf("st1")) => resp'.code \notin {401, 403}
     /\ CreateCategory(TokenOf("st1"), "Meals") => resp'.code = 200 /\ categories' # categories
     /\ \A cred \in MenuGateCallers :
          GetMenu(cred) \/ GetCategories(cred)
          => resp'.code = 200 /\ UNCHANGED <<categories, menu>>]_vars

\* staff has created a category and a menu item, and a caller without staff role
\* has then been refused a write
C29_Witness ==
  /\ DOMAIN categories # {} /\ NewItemId \in DOMAIN menu
  /\ resp.op \in {"deleteCategory", "deleteMenuItem", "updateCategory", "updateMenuItem"}
  /\ resp.code = 403 /\ resp.role \in {"student", "admin"}

(***************************************************************************)
(* The price snapshot of an order (SpecOrders).                            *)
(***************************************************************************)
\* the OrderItem rows of order id, in insertion order
ItemsOf(rows, id) == SelectSeq(rows, LAMBDA r : r.orderId = id)

\* C31: the order items a POST /orders stores carry, line by line, the unit price
\* of the menu item as the request read it; and no step changes the priceAtOrder
\* of an order item that exists or the totalPrice of an order that exists.
C31_PriceSnapshotFrozen ==
  [][/\ \A s \in Slots :
          TxCommitted(s)
          => LET rq   == inflight[s]
                 rows == ItemsOf(orderItems', nextOrderId)
             IN /\ Len(rows) = Len(rq.items)
                /\ \A k \in 1..Len(rows) :
                     /\ rows[k].itemId = rq.items[k].menuId
                     /\ rows[k].priceAtOrder = rq.menuItems[rq.items[k].menuId].price
     /\ \A id \in DOMAIN orders :
          /\ id \in DOMAIN orders' => orders'[id].totalPrice = orders[id].totalPrice
          /\ ItemsOf(orderItems', id) \in {ItemsOf(orderItems, id), <<>>}]_vars

\* an order item keeps the price it was ordered at after the menu item's price
\* has been changed
C31_Witness ==
  \E n \in 1..Len(orderItems) :
    /\ orderItems[n].itemId \in DOMAIN menu
    /\ menu[orderItems[n].itemId].price # orderItems[n].priceAtOrder
    /\ resp.op = "updateMenuItem" /\ resp.code = 200

(***************************************************************************)
(* Properties of GET /orders (SpecList).                                   *)
(***************************************************************************)
\* the sequence holds each of its elements once, the later created first
LatestFirst(list) == \A m, n \in 1..Len(list) : m < n => list[m] > list[n]
Range(list) == {list[n] : n \in 1..Len(list)}

\* C32: GET /orders answers a student with exactly the orders whose userId is the
\* caller's id, and staff or admin with all orders, the most recent first; a
\* student's list holds no order of another user and no order without a user.
C32_ListOwnOrders ==
  [][\A cred \in ListCallers \ {NoToken} :
       ListOrders(cred)
       => /\ resp'.code = 200
          /\ LatestFirst(resp'.list)
          /\ Range(resp'.list) = IF cred.role = "student"
                                   THEN {id \in DOMAIN orders : orders[id].userId = cred.userId}
                                   ELSE DOMAIN orders
          /\ cred.role = "student"
               => \A n \in 1..Len(resp'.list) :
                    orders[resp'.list[n]].userId \notin (Users \ {cred.userId}) \cup {Null}]_vars

\* student s1 has listed the orders and got the one own order, while another
\* order, of the other student or of the point of sale, is stored
C32_Witness ==
  /\ resp.op = "listOrders" /\ resp.code = 200 /\ resp.role = "student"
  /\ Cardinality(DOMAIN orders) = 2
  /\ Len(resp.list) = 1 /\ orders[resp.list[1]].userId = "s1"

(***************************************************************************)
(* Properties of POST /auth/login-staff (SpecStaffLogin).                  *)
(***************************************************************************)
\* the users a login-staff with this email and password is to give a token
MayLoginStaff(email, password) ==
  {u \in DOMAIN users : /\ users[u].email = email
                        /\ users[u].role \in {"staff", "admin"}
                        /\ users[u].password = password
                        /\ users[u].role = "staff" => users[u].approved}

\* C33: POST /auth/login-staff signs a token exactly when the user of the email
\* exists, has role staff or admin, the password verifies and, for role staff,
\* approved is true; the token is that user's; an admin needs no approval; and a
\* user of role student is answered 403.
C33_StaffLoginConditions ==
  [][\A email \in EmailInputs, password \in PasswordInputs :
       loginStaff(email, password)
       => /\ signed' \ signed \subseteq {Sign(u) : u \in MayLoginStaff(email, password)}
          /\ MayLoginStaff(email, password) # {}
               => resp'.code = 200 /\ \E u \in MayLoginStaff(email, password) : Sign(u) \in signed'
          /\ MayLoginStaff(email, password) = {} => resp'.code \in {401, 403} /\ UNCHANGED signed
          /\ (\E u \in DOMAIN users : users[u].email = email /\ users[u].role = "student")
               => resp'.code = 403]_vars

\* an admin whose approved is false has logged in through login-staff
C33_Witness ==
  /\ resp.op = "loginStaff" /\ resp.code = 200
  /\ \E u \in DOMAIN users : users[u].role = "admin" /\ ~users[u].approved /\ Sign(u) \in signed

(***************************************************************************)
(* Properties of the interleaved writes on one order (SpecStatus).         *)
(***************************************************************************)
\* C34: under any interleaving, the write of a cancel sets rejected only on an
\* order whose status is pending at the time of the write, and the write of a
\* confirm-payment sets paymentConfirmed only on an order whose status is ready at
\* the time of the write.
C34_WritesSeeRequiredStatus ==
  [][\A s \in Slots :
       /\ CancelWrite(s) /\ inflight[s].id \in DOMAIN orders
            => orders[inflight[s].id].status = "pending"
       /\ ConfirmPaymentWrite(s) /\ inflight[s].id \in DOMAIN orders
            => orders[inflight[s].id].status = "ready"]_vars

\* C35: after any DELETE /orders/:id either the order and all of its order items
\* are gone or the order and all of its order items are still present.
C35_DeleteAllOrNothing ==
  [][\A cred \in StaffCallers, id \in OrderIds :
       /\ id \in DOMAIN orders
       /\ DeleteOrder(cred, id)
       => \/ /\ id \notin DOMAIN orders'
             /\ ItemsOf(orderItems', id) = <<>>
          \/ /\ id \in DOMAIN orders'
             /\ ItemsOf(orderItems', id) = ItemsOf(orderItems, id)]_vars

(***************************************************************************)
(* Ownership of the read state of notifications (SpecRead).                *)
(***************************************************************************)
\* C36: no mark-one-read and no mark-all-read of an authenticated caller changes
\* the status of a notification whose userId is not the caller's.
C36_ReadStateOwnerOnly ==
  [][\A cred \in ReadCallers :
       /\ authenticateToken(cred).next
       /\ markAllRead(cred) \/ \E id \in NotificationIds : markRead(cred, id)
       => \A n \in DOMAIN notifications :
            notifications[n].userId # authenticateToken(cred).user
            => notifications'[n].status = notifications[n].status]_vars

(***************************************************************************)
(* The owner and the initial state of a placed order (SpecList).           *)
(***************************************************************************)
\* C37: every order that POST /orders stores has userId equal to the id carried by
\* the token of the request, status pending and paymentStatus pending; the id the
\* request keeps for the order is the token's from the start.
C37_OrderOwnedByCaller ==
  [][/\ \A s \in Slots, cred \in StudentCallers :
          /\ CreateOrderBegin(s, cred, <<[menuId |-> "B", quantity |-> 1]>>, "take_out")
          /\ inflight'[s] # Idle
          => inflight'[s].userId = cred.userId /\ inflight'[s].auth.user = cred.userId
     /\ \A s \in Slots :
          TxCommitted(s)
          => /\ DOMAIN orders' \ DOMAIN orders = {inflight'[s].order}
             /\ orders'[inflight'[s].order].userId = inflight[s].auth.user
             /\ orders'[inflight'[s].order].status = "pending"
             /\ orders'[inflight'[s].order].paymentStatus = "pending"]_vars

\* student s2 has placed an order: it is stored as s2's, pending and unpaid
C37_Witness ==
  /\ resp.op = "createOrder" /\ resp.code = 200 /\ resp.order \in DOMAIN orders
  /\ orders[resp.order].userId = "s2"
  /\ orders[resp.order].status = "pending" /\ orders[resp.order].paymentStatus = "pending"

(***************************************************************************)
(* Concurrent redemptions of reset tokens (SpecReset).                     *)
(***************************************************************************)
\* C38: a reset token writes a password at most once, also when two redemptions
\* of it run concurrently: each write of a redemption is made while some user
\* still stores the token, that is, before any other redemption of it and before
\* a newer token has replaced it; and a forgot-password that issues a new token
\* to a user leaves no user storing that user's previous token.
C38_TokenRedeemedAtMostOnce ==
  [][/\ \A s \in Slots :
          resetPasswordWrite(s)
          => \E u \in DOMAIN users : users[u].resetPasswordToken = inflight[s].token
     /\ \A email \in EmailInputs, u \in DOMAIN users :
          /\ users[u].email = email /\ users[u].resetPasswordToken # NoResetToken
          /\ forgotPassword(email, "sent")
          => \A v \in DOMAIN users' : users'[v].resetPasswordToken # users[u].resetPasswordToken]_vars

(***************************************************************************)
(* The identity the profile handlers act on (SpecProfile).                 *)
(***************************************************************************)
\* C39: for every token a login has signed, GET /auth/me answers 200 with the
\* profile of the token's user, and PUT /auth/update answers 200 and updates
\* exactly that user's row.
C39_HandlersActOnTokenSubject ==
  [][\A t \in signed :
       /\ getCurrentUser(Bearer(t)) => resp'.code = 200 /\ resp'.user = t.userId
       /\ \A fullName \in FullNameInputs \ {""} :
            updateUser(Bearer(t), fullName)
            => /\ resp'.code = 200
               /\ users' = [users EXCEPT ![t.userId].fullName = fullName]]_vars

(***************************************************************************)
(* The accounts that registration creates (SpecRegister).                  *)
(***************************************************************************)
\* C40: every account that POST /auth/register creates has role student, every
\* account that POST /auth/register-staff creates has role staff and approved
\* false, and no request creates any other account; no request changes the role
\* of an account, and only an approve-staff of an admin sets approved.
C40_RegistrationRoles ==
  [][/\ \A s \in Slots, mail \in MailOutcomes :
          registerCreate(s, mail)
          => \A u \in DOMAIN users' \ DOMAIN users : users'[u].role = "student"
     /\ \A s \in Slots, mail \in MailOutcomes :
          registerStaffCreate(s, mail)
          => \A u \in DOMAIN users' \ DOMAIN users :
               users'[u].role = "staff" /\ ~users'[u].approved
     /\ \A u \in DOMAIN users' \ DOMAIN users :
          \/ users'[u].role = "student"
          \/ users'[u].role = "staff" /\ ~users'[u].approved
     /\ \A u \in DOMAIN users :
          /\ u \in DOMAIN users' /\ users'[u].role = users[u].role
          /\ users'[u].approved /\ ~users[u].approved
             => \E mail \in MailOutcomes : approveStaff(TokenOf("ad1"), u, mail)]_vars

\* a register-staff has been answered 201 and its account is stored with role
\* staff and approved false
C40_Witness ==
  /\ resp.op = "registerStaff" /\ resp.code = 201
  /\ \E u \in DOMAIN users : users[u].role = "staff" /\ ~users[u].approved

====
